---- MODULE Spec2Model ----
(***************************************************************************)
(* A model of the WebMD probing / resolution engine of                     *)
(* backend/helpers/funtion.py (class DoctorInfoScraper) and of the         *)
(* sequential reference script backend/webmd_insurance.py.                 *)
(*                                                                         *)
(* Strings of the program are sequences of one-character strings, so that  *)
(* the regular-expression substitutions, str.split, str.strip and the      *)
(* substring test `in` are computed character by character as Python       *)
(* computes them.  Python's None is the empty sequence <<>> and a present  *)
(* value v is <<v>> wherever a variable is Optional.                       *)
(***************************************************************************)
EXTENDS Integers, Sequences, FiniteSets, TLC

VARIABLES
    pc,                 \* position of the coordinator coroutine
    name,               \* argument `name` of _scrape_webmd_with_playwright
    state,              \* argument `state` (Optional: <<>> or <<s>>)
    states_to_search,   \* funtion.py:621
    state_idx,          \* index of search_state in the loop of funtion.py:625
    browser,            \* "none" | "open" | "closed"
    tabs,               \* browser pages: tab id -> [owner, state, closes, lastActor]
    page_tasks,         \* the coroutines _scrape_single_page launched by the current gather
    crawl,              \* locals of _scrape_doctors_from_webmd when it returns (<<>> otherwise)
    doctors,            \* funtion.py:632, the list _scrape_doctors_from_webmd returned
    doctor_found,       \* funtion.py:623
    doctor_info,        \* profile record of _scrape_doctor_overview
    probe_tasks,        \* the coroutines _check_insurance_in_new_tab of the current gather
    verified_insurance, \* funtion.py:908
    webmd_data,         \* funtion.py:593, the record the run returns
    fn                  \* inputs and results of the pure functions (function-level specifications)

vars == <<pc, name, state, states_to_search, state_idx, browser, tabs, page_tasks, crawl,
          doctors, doctor_found, doctor_info, probe_tasks, verified_insurance, webmd_data, fn>>

(***************************************************************************)
(* Characters and strings                                                  *)
(***************************************************************************)
LowerLetters == <<"a","b","c","d","e","f","g","h","i","j","k","l","m",
                  "n","o","p","q","r","s","t","u","v","w","x","y","z">>
UpperLetters == <<"A","B","C","D","E","F","G","H","I","J","K","L","M",
                  "N","O","P","Q","R","S","T","U","V","W","X","Y","Z">>
Digits == {"0","1","2","3","4","5","6","7","8","9"}

\* The capital letters of Latin-1 beyond ASCII, U+00C0..U+00DE without the sign U+00D7, and
\* their small letters U+00E0..U+00FE without U+00F7, in the same order.
UpperLatin1 == <<"À", "Á", "Â", "Ã", "Ä", "Å", "Æ", "Ç", "È", "É", "Ê", "Ë", "Ì", "Í", "Î",
                "Ï", "Ð", "Ñ", "Ò", "Ó", "Ô", "Õ", "Ö", "Ø", "Ù", "Ú", "Û", "Ü", "Ý", "Þ">>
LowerLatin1 == <<"à", "á", "â", "ã", "ä", "å", "æ", "ç", "è", "é", "ê", "ë", "ì", "í", "î",
                "ï", "ð", "ñ", "ò", "ó", "ô", "õ", "ö", "ø", "ù", "ú", "û", "ü", "ý", "þ">>

\* The characters of Latin-1 beyond ASCII that are alphanumeric and have no other case: the
\* ordinal indicators, the superscript digits, the micro sign, the fractions, U+00DF and
\* U+00FF.
CaselessLatin1 == {"ª", "²", "³", "µ", "¹", "º", "¼", "½", "¾", "ß", "ÿ"}

\* The characters the class \w of a str pattern matches: the alphanumeric characters and
\* the underscore.
WordChars == {LowerLetters[i] : i \in 1..26} \cup {UpperLetters[i] : i \in 1..26}
                 \cup Digits \cup {"_"}
                 \cup {UpperLatin1[i] : i \in 1..Len(UpperLatin1)}
                 \cup {LowerLatin1[i] : i \in 1..Len(LowerLatin1)}
                 \cup CaselessLatin1

\* The characters \s, str.split() and str.strip() treat as whitespace (str.isspace): tab,
\* newline, vertical tab, form feed, carriage return, the separators U+001C..U+001F, space,
\* U+0085 and U+00A0.  The characters of the model are those of Latin-1.
Whitespace ==
    {" ", "\t", "\n", "\r", "\f", "", "", "", "", "", "", " "}

\* str.lower() on one character: a capital letter becomes its small letter, every other
\* character stays.
LowerChar(c) ==
    IF \E i \in 1..26 : UpperLetters[i] = c
    THEN LowerLetters[CHOOSE i \in 1..26 : UpperLetters[i] = c]
    ELSE IF \E i \in 1..Len(UpperLatin1) : UpperLatin1[i] = c
    THEN LowerLatin1[CHOOSE i \in 1..Len(UpperLatin1) : UpperLatin1[i] = c]
    ELSE c

\* str.lower()
Lower(s) == [i \in 1..Len(s) |-> LowerChar(s[i])]

\* s[i:] of Python with the 1-based index i.
Drop(s, i) == SubSeq(s, i, Len(s))

\* s.startswith(lit, i-1): the literal lit occurs in s at the 1-based index i.
StartsWithAt(s, i, lit) ==
    /\ i >= 1
    /\ i + Len(lit) - 1 <= Len(s)
    /\ SubSeq(s, i, i + Len(lit) - 1) = lit

\* The substring test `sub in s`.
Contains(s, sub) == \E i \in 1..(Len(s) + 1) : StartsWithAt(s, i, sub)

\* s.replace(old, new): leftmost, non-overlapping occurrences (old non-empty).
RECURSIVE Replace(_, _, _)
Replace(s, old, new) ==
    IF s = <<>> THEN <<>>
    ELSE IF StartsWithAt(s, 1, old)
         THEN new \o Replace(Drop(s, Len(old) + 1), old, new)
         ELSE <<Head(s)>> \o Replace(Tail(s), old, new)

\* s.strip()
RECURSIVE LStrip(_)
LStrip(s) == IF s # <<>> /\ Head(s) \in Whitespace THEN LStrip(Tail(s)) ELSE s
RECURSIVE RStrip(_)
RStrip(s) ==
    IF s # <<>> /\ s[Len(s)] \in Whitespace THEN RStrip(SubSeq(s, 1, Len(s) - 1)) ELSE s
Strip(s) == RStrip(LStrip(s))

\* s.split(): the maximal runs of non-whitespace characters, in order.
RECURSIVE SplitFrom(_, _)
SplitFrom(s, cur) ==
    IF s = <<>> THEN (IF cur = <<>> THEN <<>> ELSE <<cur>>)
    ELSE IF Head(s) \in Whitespace
         THEN (IF cur = <<>> THEN <<>> ELSE <<cur>>) \o SplitFrom(Tail(s), <<>>)
         ELSE SplitFrom(Tail(s), Append(cur, Head(s)))
Split(s) == SplitFrom(s, <<>>)

\* The whole of s, its query string included.
KeepQuery(s) == s

\* s.split("?")[0]: the part of s before the first "?".
RECURSIVE BeforeQuery(_)
BeforeQuery(s) ==
    IF s = <<>> \/ Head(s) = "?" THEN <<>> ELSE <<Head(s)>> \o BeforeQuery(Tail(s))

(***************************************************************************)
(* Name normalization: funtion.py:555-569 and webmd_insurance.py:21-27     *)
(***************************************************************************)
\* re.sub(r"dr\.?", "", s): every "dr", with a following period if there is one, is removed
\* wherever it occurs.
RECURSIVE SubDr(_)
SubDr(s) ==
    IF s = <<>> THEN <<>>
    ELSE IF StartsWithAt(s, 1, <<"d", "r", ".">>) THEN SubDr(Drop(s, 4))
    ELSE IF StartsWithAt(s, 1, <<"d", "r">>) THEN SubDr(Drop(s, 3))
    ELSE <<Head(s)>> \o SubDr(Tail(s))

\* re.sub(r"[.,]", "", s)
SubPunct(s) == SelectSeq(s, LAMBDA c : c \notin {".", ","})

\* \b at the 1-based position i of s: between s[i-1] and s[i].
WordBoundary(s, i) ==
    LET before == i > 1 /\ i - 1 <= Len(s) /\ s[i - 1] \in WordChars
        after  == i >= 1 /\ i <= Len(s) /\ s[i] \in WordChars
    IN  before # after

DegreeTokens == << <<"m","d">>, <<"d","o">>, <<"p","h","d">>, <<"d","d","s">> >>

\* The length of the match of \b(md|do|phd|dds)\b at index i of s, 0 when there is none.
DegreeMatchLen(s, i) ==
    LET hits == {k \in 1..Len(DegreeTokens) :
                    /\ StartsWithAt(s, i, DegreeTokens[k])
                    /\ WordBoundary(s, i)
                    /\ WordBoundary(s, i + Len(DegreeTokens[k]))}
    IN  IF hits = {} THEN 0
        ELSE Len(DegreeTokens[CHOOSE k \in hits : \A j \in hits : k <= j])

\* re.sub(r"\b(md|do|phd|dds)\b", "", s), scanning s from index i.
RECURSIVE SubDegreesFrom(_, _)
SubDegreesFrom(s, i) ==
    IF i > Len(s) THEN <<>>
    ELSE LET n == DegreeMatchLen(s, i)
         IN  IF n > 0 THEN SubDegreesFrom(s, i + n)
             ELSE <<s[i]>> \o SubDegreesFrom(s, i + 1)
SubDegrees(s) == SubDegreesFrom(s, 1)

\* re.sub(r"\s+", " ", s): every run of whitespace becomes one space.
RECURSIVE SubSpaces(_)
SubSpaces(s) ==
    IF s = <<>> THEN <<>>
    ELSE IF Head(s) \in Whitespace THEN <<" ">> \o SubSpaces(LStrip(s))
    ELSE <<Head(s)>> \o SubSpaces(Tail(s))

Sarah == <<"s","a","r","a","h">>
Sara == <<"s","a","r","a">>

\* webmd_insurance.normalize_name
normalize_name(s) == Strip(SubSpaces(SubDegrees(SubPunct(SubDr(Lower(s))))))

\* A variant of the normalization without the alias replacement.
NormalizeWithoutAlias(s) ==
    IF s = <<>> THEN <<>>
    ELSE Strip(SubSpaces(SubDegrees(SubPunct(SubDr(Lower(s))))))

\* DoctorInfoScraper._normalize_name
_normalize_name(s) ==
    IF s = <<>> THEN <<>>
    ELSE Strip(Replace(SubSpaces(SubDegrees(SubPunct(SubDr(Lower(s))))), Sarah, Sara))

(***************************************************************************)
(* Entity matcher: funtion.py:571-590 and webmd_insurance.py:75-97         *)
(***************************************************************************)
\* A variant of the predicate that accepts a candidate as soon as one target part occurs in it.
AnyPartIn(target_parts, doctor_norm) ==
    \E k \in 1..Len(target_parts) : Contains(doctor_norm, target_parts[k])

\* A variant of the predicate that accepts no candidate when the target has no part.
SomePartAndAllIn(target_parts, doctor_norm) ==
    /\ target_parts # <<>>
    /\ \A k \in 1..Len(target_parts) : Contains(doctor_norm, target_parts[k])

\* all(part in doctor_norm for part in target_parts)
AllPartsIn(target_parts, doctor_norm) ==
    \A k \in 1..Len(target_parts) : Contains(doctor_norm, target_parts[k])

\* A variant of the loop that keeps scanning and returns the last matching doctor.
RECURSIVE FindLastFrom(_, _, _)
FindLastFrom(ds, target_parts, i) ==
    IF i > Len(ds) THEN <<>>
    ELSE LET rest == FindLastFrom(ds, target_parts, i + 1)
         IN  IF rest # <<>> THEN rest
             ELSE IF AllPartsIn(target_parts, _normalize_name(ds[i].name))
                  THEN <<ds[i]>> ELSE <<>>

\* for doctor in doctors: ... return doctor; return None  (from the 1-based index i)
RECURSIVE FindFrom(_, _, _)
FindFrom(ds, target_parts, i) ==
    IF i > Len(ds) THEN <<>>
    ELSE IF AllPartsIn(target_parts, _normalize_name(ds[i].name)) THEN <<ds[i]>>
    ELSE FindFrom(ds, target_parts, i + 1)

\* A variant of the matcher that falls back to the first doctor of the list when none matches.
FindOrFirst(ds, target_name) ==
    LET r == FindFrom(ds, Split(_normalize_name(target_name)), 1)
    IN  IF r = <<>> /\ ds # <<>> THEN <<ds[1]>> ELSE r

\* DoctorInfoScraper._find_doctor_in_results
_find_doctor_in_results(ds, target_name) ==
    FindFrom(ds, Split(_normalize_name(target_name)), 1)

\* webmd_insurance.find_doctor: the same loop over normalize_name
RECURSIVE FindRefFrom(_, _, _)
FindRefFrom(ds, target_parts, i) ==
    IF i > Len(ds) THEN <<>>
    ELSE IF AllPartsIn(target_parts, normalize_name(ds[i].name)) THEN <<ds[i]>>
    ELSE FindRefFrom(ds, target_parts, i + 1)
find_doctor(ds, target) == FindRefFrom(ds, Split(normalize_name(target)), 1)

(***************************************************************************)
(* Page crawler and crawl coordinator, the parts without browser calls     *)
(***************************************************************************)
HOST == <<"h","t","t","p","s",":","/","/","d","o","c","t","o","r",".","w","e","b","m","d",".","c","o","m">>
Http == <<"h","t","t","p">>

\* funtion.py:758-762: make href a full URL
FullUrl(href) ==
    IF StartsWithAt(href, 1, <<"/">>) THEN HOST \o href
    ELSE IF ~StartsWithAt(href, 1, Http) THEN HOST \o <<"/">> \o href
    ELSE href

\* funtion.py:750-773: the entries of one page.  An anchor is [text, href]; href is <<>> when
\* the attribute is missing and <<h>> otherwise; get_text(strip=True) strips the text.
RECURSIVE ExtractEntries(_)
ExtractEntries(providers) ==
    IF providers = <<>> THEN <<>>
    ELSE LET a == Head(providers)
             nm == Strip(a.text)
         IN  IF nm = <<>> \/ a.href = <<>> \/ a.href = << <<>> >>
             THEN ExtractEntries(Tail(providers))
             ELSE << [name |-> nm, url |-> BeforeQuery(FullUrl(a.href[1]))] >>
                      \o ExtractEntries(Tail(providers))

\* webmd_insurance.py:56-69: the reference script keeps href as it is
RECURSIVE ExtractEntriesRef(_)
ExtractEntriesRef(providers) ==
    IF providers = <<>> THEN <<>>
    ELSE LET a == Head(providers)
             nm == Strip(a.text)
         IN  IF nm = <<>> \/ a.href = <<>> \/ a.href = << <<>> >>
             THEN ExtractEntriesRef(Tail(providers))
             ELSE << [name |-> nm, url |-> BeforeQuery(a.href[1])] >>
                      \o ExtractEntriesRef(Tail(providers))

\* A variant of the insertion that keeps the value of the first insertion of a key.
DictPutKeepFirst(acc, d) ==
    IF \E k \in 1..Len(acc) : acc[k].url = d.url THEN acc ELSE Append(acc, d)

\* One insertion d["url"]: d into the dict built so far (a dict keeps the position of the
\* first insertion of a key and the value of the last).
DictPut(acc, d) ==
    IF \E k \in 1..Len(acc) : acc[k].url = d.url
    THEN [k \in 1..Len(acc) |-> IF acc[k].url = d.url THEN d ELSE acc[k]]
    ELSE Append(acc, d)

\* A variant of the merge that keeps every collected entry.
KeepAll(all, acc) == acc \o all

\* list({d["url"]: d for d in all_doctors}.values()), with the dict built so far in acc
RECURSIVE DedupByUrl(_, _)
DedupByUrl(all, acc) ==
    IF all = <<>> THEN acc ELSE DedupByUrl(Tail(all), DictPut(acc, Head(all)))

\* A variant of the collection loop that stops at the first page without entries.
RECURSIVE CollectUntilEmpty(_, _)
CollectUntilEmpty(page_results, k) ==
    IF k > Len(page_results) \/ page_results[k] = <<>> THEN <<>>
    ELSE page_results[k] \o CollectUntilEmpty(page_results, k + 1)

\* funtion.py:690-698: all_doctors, the non-empty page results in page-number order
\* (a page task returns a list on every path, see PageReturn)
RECURSIVE CollectDoctors(_, _)
CollectDoctors(page_results, k) ==
    IF k > Len(page_results) THEN <<>>
    ELSE page_results[k] \o CollectDoctors(page_results, k + 1)

\* A variant of the count that takes every page.
AllPages(page_results) == Len(page_results)

\* funtion.py:691-697: successful_pages
SuccessfulPages(page_results) ==
    Cardinality({k \in 1..Len(page_results) : page_results[k] # <<>>})

(***************************************************************************)
(* Bounds and inputs of the run                                            *)
(***************************************************************************)
\* max_pages of _scrape_doctors_from_webmd (8 in the source), bounded
MaxPages == 2
\* the number of checklist items probed (the source's list has 5), bounded
MaxItems == 2
\* the largest number of candidates handed to the matcher in the function-level specifications
MaxCandidates == 2

\* range(4) of funtion.py:730
ScrollRounds == 4
\* range(1, 8) of funtion.py:988
SectionScrollSteps == 7

DrSaraJohnson == <<"D","r","."," ","S","a","r","a"," ","J","o","h","n","s","o","n">>
DrOnly == <<"D","r",".">>
SarahKJohnson == <<"S","a","r","a","h"," ","K","."," ","J","o","h","n","s","o","n">>
SaraWilliams == <<"S","a","r","a"," ","W","i","l","l","i","a","m","s">>
HrefA1 == <<"/","a","?","x","=","1">>
HrefA2 == <<"/","a","?","x","=","2">>
HrefB == <<"/","b">>

Aetna == <<"A","e","t","n","a">>
BlueCrossBlueShield == <<"B","l","u","e"," ","C","r","o","s","s"," ","B","l","u","e"," ","S","h","i","e","l","d">>
Cigna == <<"C","i","g","n","a">>
UnitedHealthcare == <<"U","n","i","t","e","d","H","e","a","l","t","h","c","a","r","e">>
Humana == <<"H","u","m","a","n","a">>
Medicaid == <<"M","e","d","i","c","a","i","d">>

\* A variant of the default list in another order.
StatesCaliforniaFirst == <<"california", "idaho", "texas", "florida", "new-york">>

\* funtion.py:621
DefaultStates == <<"idaho", "california", "texas", "florida", "new-york">>

\* funtion.py:907, cut to the first MaxItems labels
AllInsurancePlans == <<Aetna, BlueCrossBlueShield, Cigna, UnitedHealthcare, Humana>>
insurance_plans_to_check ==
    SubSeq(AllInsurancePlans, 1,
           IF MaxItems < Len(AllInsurancePlans) THEN MaxItems ELSE Len(AllInsurancePlans))

SeqsUpTo(S, n) == UNION {[1..k -> S] : k \in 0..n}

\* The target names and the optional state the run is started with.
TargetNames == {DrSaraJohnson, DrOnly}
StateArgs == {<<>>, <<"idaho">>}

\* Target names that normalize to the empty string: '' and 'Dr.'.
EmptyTargets == {<<>>, DrOnly}

\* The provider anchors (a.prov-name) a listing page may show: [text, href], href <<>> when
\* the attribute is missing.
AnchorJohnson1 == [text |-> SarahKJohnson, href |-> <<HrefA1>>]
AnchorJohnson2 == [text |-> SarahKJohnson, href |-> <<HrefA2>>]
AnchorWilliams2 == [text |-> SaraWilliams, href |-> <<HrefA2>>]
AnchorWilliamsB == [text |-> SaraWilliams, href |-> <<HrefB>>]
AnchorNoHref == [text |-> SaraWilliams, href |-> <<>>]

\* The listing pages a page fetch may read: no provider, one provider, one provider without
\* a link, two providers.
ListingPages ==
    {<<>>, <<AnchorJohnson1>>, <<AnchorJohnson2>>, <<AnchorWilliamsB>>, <<AnchorNoHref>>,
     <<AnchorWilliams2, AnchorWilliamsB>>}

\* The listing pages with at least one provider anchor, one of them with an absolute link.
HrefAAbsolute == HOST \o <<"/", "a">>
AnchorJohnsonAbsolute == [text |-> SarahKJohnson, href |-> <<HrefAAbsolute>>]
RefinePages == (ListingPages \ {<<>>}) \cup {<<AnchorJohnsonAbsolute>>}

\* ExtractEntries of every listing page, tabulated.
EntriesOf == [providers \in ListingPages \cup RefinePages |-> ExtractEntries(providers)]

\* funtion.py:737-741: the provider anchors the content of page number p may show: any
\* listing page, or, when the listing is an input (fn.pages), the page it has for p.
PageShows(p) == IF fn.op \in {"crawl", "refine"} THEN {fn.pages[p]} ELSE ListingPages

\* The insurance items the profile page lists (passive extraction, funtion.py:873-879).
PassiveInsurance == {<<>>, <<Medicaid, Aetna>>}

(***************************************************************************)
(* Browser pages (tabs)                                                    *)
(***************************************************************************)
MAIN == <<"main", 0>>
PageTask(p) == <<"page", p>>
ProbeTask(i) == <<"probe", i>>

\* context.new_page() by task: a fresh open tab t owned by its creator
NewPage(tb, task, t) ==
    [x \in (DOMAIN tb) \cup {t} |->
        IF x = t THEN [owner |-> task, state |-> "open", closes |-> 0, lastActor |-> task]
        ELSE tb[x]]

\* any operation of task on tab t other than close (goto, wait, scroll, evaluate, locator,
\* content, click, fill, type, press)
Touch(tb, task, t) == [tb EXCEPT ![t].lastActor = task]

\* A variant of close that leaves the tab open.
LeaveOpen(tb, task, t) == [tb EXCEPT ![t].lastActor = task]

\* page.close() of task on tab t
ClosePage(tb, task, t) ==
    [tb EXCEPT ![t].state = "closed", ![t].closes = @ + 1, ![t].lastActor = task]

\* A variant in which a task's browser calls go to the shared main page.
SharedTab(t) == MAIN

\* The tab a task's browser calls go to: its local new_page
OwnTab(t) == t.new_page[1]

\* The tabs that are open.
OpenTabs == {t \in DOMAIN tabs : tabs[t].state = "open"}

\* Records of closed tabs are dropped when the coroutines that owned them are gone.
ForgetClosed(tb) == [t \in {x \in DOMAIN tb : tb[x].state = "open"} |-> tb[t]]

(***************************************************************************)
(* Page crawler task: _scrape_single_page, funtion.py:715-786              *)
(* One action per suspension point (await); a task's record holds its      *)
(* locals: new_page, scroll_round, doctors (the value of the pending       *)
(* return), raised (the except block ran) and ret, the result of its       *)
(* future: <<>> while the coroutine runs, <<list>> once it has returned.   *)
(***************************************************************************)
NewPageTask ==
    [pc |-> "new_page", new_page |-> <<>>, scroll_round |-> 0, doctors |-> <<>>,
     raised |-> FALSE, ret |-> <<>>]

\* A variant of the finally block that closes the tab only when no exception was raised.
PageFinallyUnlessRaised(tb, p, t) ==
    IF t.new_page # <<>> /\ ~t.raised THEN ClosePage(tb, PageTask(p), t.new_page[1]) ELSE tb

\* funtion.py:780-786: finally: if new_page: await new_page.close()
PageFinally(tb, p, t) ==
    IF t.new_page # <<>> THEN ClosePage(tb, PageTask(p), t.new_page[1]) ELSE tb

\* A variant of the except block in which an exception raised before the tab exists leaves
\* the coroutine without a returned list.
PageRaiseEscapes(t) ==
    IF t.new_page = <<>>
    THEN [t EXCEPT !.pc = "done", !.raised = TRUE, !.doctors = <<>>]
    ELSE [t EXCEPT !.pc = "finally", !.raised = TRUE, !.doctors = <<>>]

\* funtion.py:777-779 then 780: the except block returns [], the finally block follows.
\* With no tab there is nothing to await and the coroutine is finished at once.
PageRaise(t) ==
    IF t.new_page = <<>>
    THEN [t EXCEPT !.pc = "done", !.raised = TRUE, !.doctors = <<>>, !.ret = << <<>> >>]
    ELSE [t EXCEPT !.pc = "finally", !.raised = TRUE, !.doctors = <<>>]

\* return <list> inside the try block: the finally block runs before the caller sees it
PageReturn(t, list) == [t EXCEPT !.pc = "finally", !.doctors = list]

\* funtion.py:722  new_page = await context.new_page()
PageOpen(p) ==
    /\ pc = "gather_pages"
    /\ page_tasks[p].pc = "new_page"
    /\ \/ /\ tabs' = NewPage(tabs, PageTask(p), PageTask(p))
          /\ page_tasks' = [page_tasks EXCEPT ![p].pc = "goto", ![p].new_page = <<PageTask(p)>>]
       \/ /\ page_tasks' = [page_tasks EXCEPT ![p] = PageRaise(@)]
          /\ UNCHANGED tabs
    /\ UNCHANGED <<pc, name, state, states_to_search, state_idx, browser, crawl, doctors,
                   doctor_found, doctor_info, probe_tasks, verified_insurance, webmd_data, fn>>

\* funtion.py:725  await new_page.goto(url, wait_until="domcontentloaded")
PageGoto(p) ==
    /\ pc = "gather_pages"
    /\ page_tasks[p].pc = "goto"
    /\ tabs' = Touch(tabs, PageTask(p), OwnTab(page_tasks[p]))
    /\ \/ page_tasks' = [page_tasks EXCEPT ![p].pc = "goto_wait"]
       \/ page_tasks' = [page_tasks EXCEPT ![p] = PageRaise(@)]
    /\ UNCHANGED <<pc, name, state, states_to_search, state_idx, browser, crawl, doctors,
                   doctor_found, doctor_info, probe_tasks, verified_insurance, webmd_data, fn>>

\* funtion.py:726  await new_page.wait_for_timeout(3000); the loop of line 730 starts
PageGotoWait(p) ==
    /\ pc = "gather_pages"
    /\ page_tasks[p].pc = "goto_wait"
    /\ tabs' = Touch(tabs, PageTask(p), OwnTab(page_tasks[p]))
    /\ \/ page_tasks' = [page_tasks EXCEPT ![p].pc = "scroll"]
       \/ page_tasks' = [page_tasks EXCEPT ![p] = PageRaise(@)]
    /\ UNCHANGED <<pc, name, state, states_to_search, state_idx, browser, crawl, doctors,
                   doctor_found, doctor_info, probe_tasks, verified_insurance, webmd_data, fn>>

\* funtion.py:731  await new_page.mouse.wheel(0, 2500) of one round of the loop
PageScroll(p) ==
    /\ pc = "gather_pages"
    /\ page_tasks[p].pc = "scroll"
    /\ tabs' = Touch(tabs, PageTask(p), OwnTab(page_tasks[p]))
    /\ \/ page_tasks' = [page_tasks EXCEPT ![p].pc = "scroll_wait"]
       \/ page_tasks' = [page_tasks EXCEPT ![p] = PageRaise(@)]
    /\ UNCHANGED <<pc, name, state, states_to_search, state_idx, browser, crawl, doctors,
                   doctor_found, doctor_info, probe_tasks, verified_insurance, webmd_data, fn>>

\* A variant of the lazy-loading loop that starts over after its last round.
PageScrollWaitAgain(p) ==
    /\ pc = "gather_pages"
    /\ page_tasks[p].pc = "scroll_wait"
    /\ tabs' = Touch(tabs, PageTask(p), OwnTab(page_tasks[p]))
    /\ \/ page_tasks' = [page_tasks EXCEPT ![p].scroll_round = (@ + 1) % ScrollRounds,
                                            ![p].pc = "scroll"]
       \/ page_tasks' = [page_tasks EXCEPT ![p] = PageRaise(@)]
    /\ UNCHANGED <<pc, name, state, states_to_search, state_idx, browser, crawl, doctors,
                   doctor_found, doctor_info, probe_tasks, verified_insurance, webmd_data, fn>>

\* funtion.py:732, 730  await new_page.wait_for_timeout(700) ends the round; after
\* ScrollRounds rounds the loop is left
PageScrollWait(p) ==
    /\ pc = "gather_pages"
    /\ page_tasks[p].pc = "scroll_wait"
    /\ tabs' = Touch(tabs, PageTask(p), OwnTab(page_tasks[p]))
    /\ \/ page_tasks' = [page_tasks EXCEPT
                            ![p].scroll_round = @ + 1,
                            ![p].pc = IF page_tasks[p].scroll_round + 1 < ScrollRounds
                                      THEN "scroll" ELSE "content"]
       \/ page_tasks' = [page_tasks EXCEPT ![p] = PageRaise(@)]
    /\ UNCHANGED <<pc, name, state, states_to_search, state_idx, browser, crawl, doctors,
                   doctor_found, doctor_info, probe_tasks, verified_insurance, webmd_data, fn>>

\* funtion.py:737-775  content(), parse, select a.prov-name, extract the entries
PageParse(p) ==
    /\ pc = "gather_pages"
    /\ page_tasks[p].pc = "content"
    /\ tabs' = Touch(tabs, PageTask(p), OwnTab(page_tasks[p]))
    /\ \/ \E providers \in PageShows(p) :
            page_tasks' = [page_tasks EXCEPT ![p] =
                IF providers = <<>> THEN PageReturn(@, <<>>)
                ELSE PageReturn(@, EntriesOf[providers])]
       \/ page_tasks' = [page_tasks EXCEPT ![p] = PageRaise(@)]
    /\ UNCHANGED <<pc, name, state, states_to_search, state_idx, browser, crawl, doctors,
                   doctor_found, doctor_info, probe_tasks, verified_insurance, webmd_data, fn>>

\* A variant of the end of a page task that appends its entries to the shared list as it
\* finishes, so that the list is in completion order.
PageCloseAppendsShared(p) ==
    /\ pc = "gather_pages"
    /\ page_tasks[p].pc = "finally"
    /\ tabs' = PageFinally(tabs, p, page_tasks[p])
    /\ page_tasks' = [page_tasks EXCEPT ![p].pc = "done", ![p].ret = <<page_tasks[p].doctors>>]
    /\ doctors' = doctors \o page_tasks[p].doctors
    /\ UNCHANGED <<pc, name, state, states_to_search, state_idx, browser, crawl,
                   doctor_found, doctor_info, probe_tasks, verified_insurance, webmd_data, fn>>

\* funtion.py:780-786  the finally block closes the tab (an error of close() is swallowed),
\* then the coroutine's result is set
PageClose(p) ==
    /\ pc = "gather_pages"
    /\ page_tasks[p].pc = "finally"
    /\ tabs' = PageFinally(tabs, p, page_tasks[p])
    /\ page_tasks' = [page_tasks EXCEPT ![p].pc = "done", ![p].ret = <<page_tasks[p].doctors>>]
    /\ UNCHANGED <<pc, name, state, states_to_search, state_idx, browser, crawl, doctors,
                   doctor_found, doctor_info, probe_tasks, verified_insurance, webmd_data, fn>>

(***************************************************************************)
(* Directory crawl coordinator: _scrape_doctors_from_webmd, 667-713        *)
(***************************************************************************)
\* A variant of the barrier that lets the coordinator go on once one task has finished.
GatherAny(tasks) == \E k \in DOMAIN tasks : tasks[k].pc = "done"

\* await asyncio.gather(*tasks, return_exceptions=True) returns when every task has finished
GatherDone(tasks) == \A k \in DOMAIN tasks : tasks[k].pc = "done"

\* A variant of the hand-over that drops the results after the first empty one.
GatherResultsUntilEmpty(tasks, none) ==
    [k \in DOMAIN tasks |->
        IF \E j \in 1..k : tasks[j].ret = <<>> \/ tasks[j].ret[1] = <<>>
        THEN none ELSE tasks[k].ret[1]]

\* The results gather hands over, in the order of the tasks (a future without a result has
\* none to hand over; GatherDone excludes that case).
GatherResults(tasks, none) ==
    [k \in DOMAIN tasks |-> IF tasks[k].ret = <<>> THEN none ELSE tasks[k].ret[1]]

\* funtion.py:679-687  build the page coroutines and hand them to gather
StartCrawl ==
    /\ pc = "loop"
    /\ state_idx <= Len(states_to_search)
    /\ page_tasks' = [p \in 1..MaxPages |-> NewPageTask]
    /\ pc' = "gather_pages"
    /\ UNCHANGED <<name, state, states_to_search, state_idx, browser, tabs, crawl, doctors,
                   doctor_found, doctor_info, probe_tasks, verified_insurance, webmd_data, fn>>

\* funtion.py:687-708  the gather barrier, the collection loop and the deduplication
CrawlMerge ==
    /\ pc = "gather_pages"
    /\ GatherDone(page_tasks)
    /\ LET page_results == GatherResults(page_tasks, <<>>)
           all_doctors == CollectDoctors(page_results, 1)
           unique_doctors == DedupByUrl(all_doctors, <<>>)
       IN  /\ crawl' = << [page_results |-> page_results,
                           all_doctors |-> all_doctors,
                           successful_pages |-> SuccessfulPages(page_results),
                           unique_doctors |-> unique_doctors] >>
           /\ doctors' = unique_doctors
    /\ pc' = "crawl_return"
    /\ UNCHANGED <<name, state, states_to_search, state_idx, browser, tabs, page_tasks,
                   doctor_found, doctor_info, probe_tasks, verified_insurance, webmd_data, fn>>

(***************************************************************************)
(* Classification: funtion.py:1053-1096                                    *)
(***************************************************************************)
Accepts == <<"a","c","c","e","p","t","s">>
Accepted == <<"a","c","c","e","p","t","e","d">>
Participating == <<"p","a","r","t","i","c","i","p","a","t","i","n","g">>
Dr == <<"d","r">>
WeCannotVerify == <<"w","e"," ","c","a","n","n","o","t"," ","v","e","r","i","f","y">>
CannotVerify == <<"c","a","n","n","o","t"," ","v","e","r","i","f","y">>
NotVerified == <<"n","o","t"," ","v","e","r","i","f","i","e","d">>
Contact == <<"c","o","n","t","a","c","t">>
Provider == <<"p","r","o","v","i","d","e","r">>
ToConfirm == <<"t","o"," ","c","o","n","f","i","r","m">>

\* The lines of s: "." of a regular expression does not match a line break.
RECURSIVE LinesFrom(_, _)
LinesFrom(s, cur) ==
    IF s = <<>> THEN <<cur>>
    ELSE IF Head(s) = "\n" THEN <<cur>> \o LinesFrom(Tail(s), <<>>)
    ELSE LinesFrom(Tail(s), Append(cur, Head(s)))
Lines(s) == LinesFrom(s, <<>>)

\* The least index >= i at which lit occurs in s, 0 when there is none.
FirstIndex(s, lit, i) ==
    LET hits == {j \in i..(Len(s) + 1) : StartsWithAt(s, j, lit)}
    IN  IF hits = {} THEN 0 ELSE CHOOSE j \in hits : \A k \in hits : j <= k

\* The literals lits occur in line in this order without overlapping, from index i on.
RECURSIVE ChainFrom(_, _, _)
ChainFrom(line, lits, i) ==
    IF lits = <<>> THEN TRUE
    ELSE LET j == FirstIndex(line, Head(lits), i)
         IN  j # 0 /\ ChainFrom(line, Tail(lits), j + Len(Head(lits)))

\* re.search("lit1.*lit2.*lit3", s): the literals in order within one line of s
SearchChain(s, lits) ==
    LET ls == Lines(s) IN \E k \in 1..Len(ls) : ChainFrom(ls[k], lits, 1)

\* funtion.py:1070-1075
acceptance_patterns(insurance_name) ==
    << <<Dr, Accepts, Lower(insurance_name)>>,
       <<Accepts, Lower(insurance_name)>>,
       <<Lower(insurance_name), Accepted>>,
       <<Lower(insurance_name), Participating>> >>

\* funtion.py:1083-1088
rejection_patterns ==
    << <<WeCannotVerify>>, <<CannotVerify>>, <<NotVerified>>, <<Contact, Provider, ToConfirm>> >>

\* A variant of the verification-element test that does not look for the name.
VerifyElementMentions(verify_texts, insurance_name) ==
    \E i \in 1..Len(verify_texts) :
        /\ verify_texts[i] # <<>>
        /\ Contains(Lower(verify_texts[i][1]), Accepts)

\* funtion.py:1060-1065: some div.verify-text has a text with "accepts" and the name in it
VerifyElementAccepts(verify_texts, insurance_name) ==
    \E i \in 1..Len(verify_texts) :
        /\ verify_texts[i] # <<>>
        /\ verify_texts[i][1] # <<>>
        /\ Contains(Lower(verify_texts[i][1]), Accepts)
        /\ Contains(Lower(verify_texts[i][1]), Lower(insurance_name))

\* funtion.py:1077-1080
AcceptancePatternMatches(page_content, insurance_name) ==
    \E k \in 1..Len(acceptance_patterns(insurance_name)) :
        SearchChain(page_content, acceptance_patterns(insurance_name)[k])

\* funtion.py:1090-1093
RejectionPatternMatches(page_content) ==
    \E k \in 1..Len(rejection_patterns) : SearchChain(page_content, rejection_patterns[k])

\* A variant of the content checks that consults the rejection patterns first.
ContentOutcomeRejectionFirst(content, insurance_name) ==
    IF RejectionPatternMatches(Lower(content)) THEN "rejected"
    ELSE IF AcceptancePatternMatches(Lower(content), insurance_name) THEN "accepted"
    ELSE "unknown"

\* funtion.py:1068-1096: the exit taken on the content of the page, lowercased at 1068: the
\* acceptance patterns, then the rejection patterns, then return False.
ContentOutcome(content, insurance_name) ==
    IF AcceptancePatternMatches(Lower(content), insurance_name) THEN "accepted"
    ELSE IF RejectionPatternMatches(Lower(content)) THEN "rejected"
    ELSE "unknown"

TextJaneAccepts == <<"D","r","."," ","J","a","n","e"," ","D","o","e"," ","a","c","c","e","p","t","s"," ","A","e","t","n","a"," ","a","n","d"," ","B","l","u","e"," ","C","r","o","s","s"," ","B","l","u","e"," ","S","h","i","e","l","d",".">>
TextCannotVerifyAetna == <<"w","e"," ","c","a","n","n","o","t"," ","v","e","r","i","f","y"," ","t","h","i","s"," ","p","r","o","v","i","d","e","r"," ","a","c","c","e","p","t","s"," ","a","e","t","n","a">>
TextCannotVerify == <<"W","e"," ","c","a","n","n","o","t"," ","v","e","r","i","f","y"," ","t","h","i","s"," ","p","l","a","n",".">>
TextPlain == <<"I","n","s","u","r","a","n","c","e"," ","P","l","a","n","s">>

\* the largest number the second count of the verification elements gives
MaxVerifyCount == 2

\* The states of the profile page a probe may read after its search.
ResultPages ==
    {[verify_texts |-> << <<TextPlain>>, <<TextJaneAccepts>> >>, content |-> TextJaneAccepts],
     [verify_texts |-> << <<TextPlain>> >>, content |-> TextCannotVerify],
     [verify_texts |-> <<>>, content |-> TextCannotVerifyAetna],
     [verify_texts |-> <<>>, content |-> TextCannotVerify],
     [verify_texts |-> <<>>, content |-> TextPlain]}

TextAcceptsCigna == <<"D","r","."," ","J","a","n","e"," ","D","o","e"," ","a","c","c","e","p","t","s"," ","C","i","g","n","a",".">>
TextUpperAetna == <<"D","R","."," ","J","A","N","E"," ","D","O","E",","," ","A","C","C","E","P","T","S"," ","A","E","T","N","A",".">>
TextAetnaAccepted == <<"A","e","t","n","a"," ","p","l","a","n","s"," ","a","r","e"," ","a","c","c","e","p","t","e","d">>
TextCignaParticipating == <<"C","i","g","n","a",":"," ","p","a","r","t","i","c","i","p","a","t","i","n","g"," ","p","r","o","v","i","d","e","r">>
TextSplitLines == <<"T","h","i","s"," ","p","r","o","v","i","d","e","r"," ","a","c","c","e","p","t","s","\n","A","e","t","n","a"," ","m","e","m","b","e","r","s",":"," ","a","s","k">>
TextContactProvider == <<"N","o","t"," ","v","e","r","i","f","i","e","d","."," ","C","o","n","t","a","c","t"," ","t","h","e"," ","p","r","o","v","i","d","e","r"," ","t","o"," ","c","o","n","f","i","r","m"," ","H","u","m","a","n","a">>

\* text_content() of the div.verify-text elements: <<>> for None, <<text>> for a text
ClassifyVerifyTexts ==
    {<<>>,
     << <<>> >>,
     << <<TextJaneAccepts>> >>,
     << <<TextAcceptsCigna>> >>,
     << <<>>, <<TextUpperAetna>> >>}

ClassifyContents ==
    {TextJaneAccepts, TextCannotVerifyAetna, TextCannotVerify, TextPlain, TextAetnaAccepted,
     TextCignaParticipating, TextSplitLines, TextContactProvider}

\* The states of the result page the classification is checked on.
ClassifyPages ==
    {[verify_texts |-> vt, content |-> content] :
        vt \in ClassifyVerifyTexts, content \in ClassifyContents}

\* funtion.py:1057-1068: the result page a probe may read: any of ResultPages, or, when the
\* page is an input (fn.page), that page.
ResultPageShown == IF fn.op = "classify" THEN {fn.page} ELSE ResultPages

\* funtion.py:1063: the test of one verification element, for every element of every result
\* page and every checklist item, tabulated.
ElementAccepts ==
    [pg \in ResultPages \cup ClassifyPages |->
        [i \in 1..Len(insurance_plans_to_check) |->
            [k \in 1..Len(pg.verify_texts) |->
                VerifyElementAccepts(<<pg.verify_texts[k]>>, insurance_plans_to_check[i])]]]

\* funtion.py:1068-1096: the exit taken on the page content once no verification element
\* accepted, for every result page and every checklist item, tabulated.
ContentOutcomeOf ==
    [pg \in ResultPages \cup ClassifyPages |->
        [i \in 1..Len(insurance_plans_to_check) |->
            ContentOutcome(pg.content, insurance_plans_to_check[i])]]

(***************************************************************************)
(* Verification probe: _check_insurance_in_new_tab, funtion.py:953-1107    *)
(* One action per suspension point.  A task's record holds the locals that *)
(* are still read (new_page, scroll_step, insurance_section_found,         *)
(* search_input), what was done to the search input (input_ops), how the   *)
(* search was triggered (submitted), the result page the classification    *)
(* reads, the number of verification elements the loop runs over and the   *)
(* element it is at (page, count, elem), the exit taken (exit), the value  *)
(* of the pending return (result) and ret, the result of its future; url   *)
(* and insurance_name are the arguments it was created with.               *)
(***************************************************************************)
NewProbeTask(url, insurance_name) ==
    [url |-> url, insurance_name |-> insurance_name,
     pc |-> "new_page", new_page |-> <<>>, scroll_step |-> 0,
     insurance_section_found |-> FALSE, search_input |-> "", input_ops |-> <<>>,
     submitted |-> "", page |-> <<>>, count |-> 0, elem |-> 0, exit |-> "", result |-> FALSE,
     ret |-> <<>>]

\* The locals of a probe that are not read again, back at their initial values.
ProbeLocalsDone(t) ==
    [t EXCEPT !.scroll_step = 0, !.insurance_section_found = FALSE, !.search_input = "",
              !.input_ops = <<>>, !.submitted = "", !.page = <<>>, !.count = 0,
              !.elem = 0]

\* A variant of the finally block that closes the tab only when no exception was raised.
ProbeFinallyUnlessRaised(tb, i, t) ==
    IF t.new_page # <<>> /\ t.exit # "exception"
    THEN ClosePage(tb, ProbeTask(i), t.new_page[1]) ELSE tb

\* funtion.py:1101-1107: finally: if new_page: await new_page.close()
ProbeFinally(tb, i, t) ==
    IF t.new_page # <<>> THEN ClosePage(tb, ProbeTask(i), t.new_page[1]) ELSE tb

\* A variant of the except block in which an exception raised before the tab exists leaves
\* the coroutine without a returned value.
ProbeRaiseEscapes(t) ==
    IF t.new_page = <<>>
    THEN [ProbeLocalsDone(t) EXCEPT !.pc = "done", !.exit = "exception", !.result = FALSE]
    ELSE [ProbeLocalsDone(t) EXCEPT !.pc = "finally", !.exit = "exception", !.result = FALSE]

\* funtion.py:1098-1100 then 1101: the except block returns False, the finally block follows.
ProbeRaise(t) ==
    IF t.new_page = <<>>
    THEN [ProbeLocalsDone(t) EXCEPT !.pc = "done", !.exit = "exception", !.result = FALSE,
                                    !.ret = <<FALSE>>]
    ELSE [ProbeLocalsDone(t) EXCEPT !.pc = "finally", !.exit = "exception", !.result = FALSE]

\* return <value> inside the try block: the finally block runs before the caller sees it
ProbeReturn(t, how, value) ==
    [ProbeLocalsDone(t) EXCEPT !.pc = "finally", !.exit = how, !.result = value]

\* A variant in which a probe opens its tab only once the probe before it has finished.
ProbeOpenAfterPrevious(i) ==
    /\ pc = "gather_probes"
    /\ probe_tasks[i].pc = "new_page"
    /\ i > 1 => probe_tasks[i - 1].pc = "done"
    /\ \/ /\ tabs' = NewPage(tabs, ProbeTask(i), ProbeTask(i))
          /\ probe_tasks' = [probe_tasks EXCEPT ![i].pc = "goto",
                                                ![i].new_page = <<ProbeTask(i)>>]
       \/ /\ probe_tasks' = [probe_tasks EXCEPT ![i] = ProbeRaise(@)]
          /\ UNCHANGED tabs
    /\ UNCHANGED <<pc, name, state, states_to_search, state_idx, browser, page_tasks, crawl,
                   doctors, doctor_found, doctor_info, verified_insurance, webmd_data, fn>>

\* funtion.py:968  new_page = await context.new_page()
ProbeOpen(i) ==
    /\ pc = "gather_probes"
    /\ probe_tasks[i].pc = "new_page"
    /\ \/ /\ tabs' = NewPage(tabs, ProbeTask(i), ProbeTask(i))
          /\ probe_tasks' = [probe_tasks EXCEPT ![i].pc = "goto",
                                                ![i].new_page = <<ProbeTask(i)>>]
       \/ /\ probe_tasks' = [probe_tasks EXCEPT ![i] = ProbeRaise(@)]
          /\ UNCHANGED tabs
    /\ UNCHANGED <<pc, name, state, states_to_search, state_idx, browser, page_tasks, crawl,
                   doctors, doctor_found, doctor_info, verified_insurance, webmd_data, fn>>

\* funtion.py:973  goto(url, wait_until="domcontentloaded")
ProbeGoto(i) ==
    /\ pc = "gather_probes"
    /\ probe_tasks[i].pc = "goto"
    /\ tabs' = Touch(tabs, ProbeTask(i), OwnTab(probe_tasks[i]))
    /\ \/ probe_tasks' = [probe_tasks EXCEPT ![i].pc = "networkidle"]
       \/ probe_tasks' = [probe_tasks EXCEPT ![i] = ProbeRaise(@)]
    /\ UNCHANGED <<pc, name, state, states_to_search, state_idx, browser, page_tasks, crawl,
                   doctors, doctor_found, doctor_info, verified_insurance, webmd_data, fn>>

\* A variant of the stabilization in which the timeout is not caught.
ProbeStabilizeFatal(i) ==
    /\ pc = "gather_probes"
    /\ probe_tasks[i].pc = "networkidle"
    /\ tabs' = Touch(tabs, ProbeTask(i), OwnTab(probe_tasks[i]))
    /\ \/ probe_tasks' = [probe_tasks EXCEPT ![i].pc = "scroll_top"]
       \/ probe_tasks' = [probe_tasks EXCEPT ![i] = ProbeRaise(@)]
    /\ UNCHANGED <<pc, name, state, states_to_search, state_idx, browser, page_tasks, crawl,
                   doctors, doctor_found, doctor_info, verified_insurance, webmd_data, fn>>

\* funtion.py:976-979  wait_for_load_state("networkidle", timeout=5000); a timeout is caught
ProbeStabilize(i) ==
    /\ pc = "gather_probes"
    /\ probe_tasks[i].pc = "networkidle"
    /\ tabs' = Touch(tabs, ProbeTask(i), OwnTab(probe_tasks[i]))
    /\ \/ probe_tasks' = [probe_tasks EXCEPT ![i].pc = "scroll_top"]
       \/ probe_tasks' = [probe_tasks EXCEPT ![i].pc = "fallback_wait"]
    /\ UNCHANGED <<pc, name, state, states_to_search, state_idx, browser, page_tasks, crawl,
                   doctors, doctor_found, doctor_info, verified_insurance, webmd_data, fn>>

\* funtion.py:979  wait_for_timeout(3000) in the handler of the timeout; an exception raised
\* in the handler reaches the outer except block
ProbeFallbackWait(i) ==
    /\ pc = "gather_probes"
    /\ probe_tasks[i].pc = "fallback_wait"
    /\ tabs' = Touch(tabs, ProbeTask(i), OwnTab(probe_tasks[i]))
    /\ \/ probe_tasks' = [probe_tasks EXCEPT ![i].pc = "scroll_top"]
       \/ probe_tasks' = [probe_tasks EXCEPT ![i] = ProbeRaise(@)]
    /\ UNCHANGED <<pc, name, state, states_to_search, state_idx, browser, page_tasks, crawl,
                   doctors, doctor_found, doctor_info, verified_insurance, webmd_data, fn>>

\* funtion.py:983  await new_page.evaluate("window.scrollTo(0, 0)")
ProbeScrollTop(i) ==
    /\ pc = "gather_probes"
    /\ probe_tasks[i].pc = "scroll_top"
    /\ tabs' = Touch(tabs, ProbeTask(i), OwnTab(probe_tasks[i]))
    /\ \/ probe_tasks' = [probe_tasks EXCEPT ![i].pc = "scroll_top_wait"]
       \/ probe_tasks' = [probe_tasks EXCEPT ![i] = ProbeRaise(@)]
    /\ UNCHANGED <<pc, name, state, states_to_search, state_idx, browser, page_tasks, crawl,
                   doctors, doctor_found, doctor_info, verified_insurance, webmd_data, fn>>

\* funtion.py:984, 987-988  await new_page.wait_for_timeout(500); the loop over range(1, 8) starts
ProbeScrollTopWait(i) ==
    /\ pc = "gather_probes"
    /\ probe_tasks[i].pc = "scroll_top_wait"
    /\ tabs' = Touch(tabs, ProbeTask(i), OwnTab(probe_tasks[i]))
    /\ \/ probe_tasks' = [probe_tasks EXCEPT ![i].pc = "scroll", ![i].scroll_step = 1]
       \/ probe_tasks' = [probe_tasks EXCEPT ![i] = ProbeRaise(@)]
    /\ UNCHANGED <<pc, name, state, states_to_search, state_idx, browser, page_tasks, crawl,
                   doctors, doctor_found, doctor_info, verified_insurance, webmd_data, fn>>

\* funtion.py:989  await new_page.evaluate(scrollTo ...) of one step of the section scroll
ProbeSectionScroll(i) ==
    /\ pc = "gather_probes"
    /\ probe_tasks[i].pc = "scroll"
    /\ tabs' = Touch(tabs, ProbeTask(i), OwnTab(probe_tasks[i]))
    /\ \/ probe_tasks' = [probe_tasks EXCEPT ![i].pc = "scroll_wait"]
       \/ probe_tasks' = [probe_tasks EXCEPT ![i] = ProbeRaise(@)]
    /\ UNCHANGED <<pc, name, state, states_to_search, state_idx, browser, page_tasks, crawl,
                   doctors, doctor_found, doctor_info, verified_insurance, webmd_data, fn>>

\* funtion.py:990  await new_page.wait_for_timeout(800)
ProbeSectionScrollWait(i) ==
    /\ pc = "gather_probes"
    /\ probe_tasks[i].pc = "scroll_wait"
    /\ tabs' = Touch(tabs, ProbeTask(i), OwnTab(probe_tasks[i]))
    /\ \/ probe_tasks' = [probe_tasks EXCEPT ![i].pc = "scroll_visible"]
       \/ probe_tasks' = [probe_tasks EXCEPT ![i] = ProbeRaise(@)]
    /\ UNCHANGED <<pc, name, state, states_to_search, state_idx, browser, page_tasks, crawl,
                   doctors, doctor_found, doctor_info, verified_insurance, webmd_data, fn>>

\* funtion.py:992-999  await insurance_text.is_visible(): the heading is visible (break), or it is
\* not or is_visible raises (continue); the loop ends after SectionScrollSteps steps.
\* scroll_step is not read after the loop.
ProbeSectionVisible(i) ==
    /\ pc = "gather_probes"
    /\ probe_tasks[i].pc = "scroll_visible"
    /\ tabs' = Touch(tabs, ProbeTask(i), OwnTab(probe_tasks[i]))
    /\ \/ probe_tasks' = [probe_tasks EXCEPT ![i].pc = "input_primary", ![i].scroll_step = 0,
                                             ![i].insurance_section_found = TRUE]
       \/ probe_tasks' = [probe_tasks EXCEPT ![i] =
              IF @.scroll_step < SectionScrollSteps
              THEN [@ EXCEPT !.pc = "scroll", !.scroll_step = @ + 1]
              ELSE [@ EXCEPT !.pc = "input_primary", !.scroll_step = 0]]
    /\ UNCHANGED <<pc, name, state, states_to_search, state_idx, browser, page_tasks, crawl,
                   doctors, doctor_found, doctor_info, verified_insurance, webmd_data, fn>>

\* funtion.py:1008-1011  the xpath locator: wait_for(state="visible", timeout=5000).
\* insurance_section_found was read for the log line 1001 and is not read again.
ProbeLocatePrimary(i) ==
    /\ pc = "gather_probes"
    /\ probe_tasks[i].pc = "input_primary"
    /\ tabs' = Touch(tabs, ProbeTask(i), OwnTab(probe_tasks[i]))
    /\ \/ probe_tasks' = [probe_tasks EXCEPT ![i].pc = "click", ![i].search_input = "xpath",
                                             ![i].insurance_section_found = FALSE]
       \/ probe_tasks' = [probe_tasks EXCEPT ![i].pc = "input_fallback",
                                             ![i].insurance_section_found = FALSE]
    /\ UNCHANGED <<pc, name, state, states_to_search, state_idx, browser, page_tasks, crawl,
                   doctors, doctor_found, doctor_info, verified_insurance, webmd_data, fn>>

\* A variant of the fallback locator whose failure is not caught.
ProbeLocateFallbackRaises(i) ==
    /\ pc = "gather_probes"
    /\ probe_tasks[i].pc = "input_fallback"
    /\ tabs' = Touch(tabs, ProbeTask(i), OwnTab(probe_tasks[i]))
    /\ \/ probe_tasks' = [probe_tasks EXCEPT ![i].pc = "click", ![i].search_input = "css"]
       \/ probe_tasks' = [probe_tasks EXCEPT ![i] = ProbeRaise(@)]
    /\ UNCHANGED <<pc, name, state, states_to_search, state_idx, browser, page_tasks, crawl,
                   doctors, doctor_found, doctor_info, verified_insurance, webmd_data, fn>>

\* funtion.py:1012-1018  the fallback locator; when it fails too: return False
ProbeLocateFallback(i) ==
    /\ pc = "gather_probes"
    /\ probe_tasks[i].pc = "input_fallback"
    /\ tabs' = Touch(tabs, ProbeTask(i), OwnTab(probe_tasks[i]))
    /\ \/ probe_tasks' = [probe_tasks EXCEPT ![i].pc = "click", ![i].search_input = "css"]
       \/ probe_tasks' = [probe_tasks EXCEPT ![i] = ProbeReturn(@, "no_input", FALSE)]
    /\ UNCHANGED <<pc, name, state, states_to_search, state_idx, browser, page_tasks, crawl,
                   doctors, doctor_found, doctor_info, verified_insurance, webmd_data, fn>>

\* funtion.py:1022  await search_input.click()
ProbeClick(i) ==
    /\ pc = "gather_probes"
    /\ probe_tasks[i].pc = "click"
    /\ tabs' = Touch(tabs, ProbeTask(i), OwnTab(probe_tasks[i]))
    /\ \/ probe_tasks' = [probe_tasks EXCEPT ![i].pc = "click_wait",
                                             ![i].input_ops = Append(@, "click")]
       \/ probe_tasks' = [probe_tasks EXCEPT ![i] = ProbeRaise(@)]
    /\ UNCHANGED <<pc, name, state, states_to_search, state_idx, browser, page_tasks, crawl,
                   doctors, doctor_found, doctor_info, verified_insurance, webmd_data, fn>>

\* funtion.py:1023  await new_page.wait_for_timeout(300)
ProbeClickWait(i) ==
    /\ pc = "gather_probes"
    /\ probe_tasks[i].pc = "click_wait"
    /\ tabs' = Touch(tabs, ProbeTask(i), OwnTab(probe_tasks[i]))
    /\ \/ probe_tasks' = [probe_tasks EXCEPT ![i].pc = "fill"]
       \/ probe_tasks' = [probe_tasks EXCEPT ![i] = ProbeRaise(@)]
    /\ UNCHANGED <<pc, name, state, states_to_search, state_idx, browser, page_tasks, crawl,
                   doctors, doctor_found, doctor_info, verified_insurance, webmd_data, fn>>

\* funtion.py:1024  await search_input.fill("")
ProbeFill(i) ==
    /\ pc = "gather_probes"
    /\ probe_tasks[i].pc = "fill"
    /\ tabs' = Touch(tabs, ProbeTask(i), OwnTab(probe_tasks[i]))
    /\ \/ probe_tasks' = [probe_tasks EXCEPT ![i].pc = "fill_wait",
                                             ![i].input_ops = Append(@, "fill")]
       \/ probe_tasks' = [probe_tasks EXCEPT ![i] = ProbeRaise(@)]
    /\ UNCHANGED <<pc, name, state, states_to_search, state_idx, browser, page_tasks, crawl,
                   doctors, doctor_found, doctor_info, verified_insurance, webmd_data, fn>>

\* funtion.py:1025  await new_page.wait_for_timeout(200)
ProbeFillWait(i) ==
    /\ pc = "gather_probes"
    /\ probe_tasks[i].pc = "fill_wait"
    /\ tabs' = Touch(tabs, ProbeTask(i), OwnTab(probe_tasks[i]))
    /\ \/ probe_tasks' = [probe_tasks EXCEPT ![i].pc = "type"]
       \/ probe_tasks' = [probe_tasks EXCEPT ![i] = ProbeRaise(@)]
    /\ UNCHANGED <<pc, name, state, states_to_search, state_idx, browser, page_tasks, crawl,
                   doctors, doctor_found, doctor_info, verified_insurance, webmd_data, fn>>

\* funtion.py:1026  await search_input.type(insurance_name, delay=50)
ProbeType(i) ==
    /\ pc = "gather_probes"
    /\ probe_tasks[i].pc = "type"
    /\ tabs' = Touch(tabs, ProbeTask(i), OwnTab(probe_tasks[i]))
    /\ \/ probe_tasks' = [probe_tasks EXCEPT ![i].pc = "type_wait",
                                             ![i].input_ops = Append(@, "type")]
       \/ probe_tasks' = [probe_tasks EXCEPT ![i] = ProbeRaise(@)]
    /\ UNCHANGED <<pc, name, state, states_to_search, state_idx, browser, page_tasks, crawl,
                   doctors, doctor_found, doctor_info, verified_insurance, webmd_data, fn>>

\* funtion.py:1027  await new_page.wait_for_timeout(800)
ProbeTypeWait(i) ==
    /\ pc = "gather_probes"
    /\ probe_tasks[i].pc = "type_wait"
    /\ tabs' = Touch(tabs, ProbeTask(i), OwnTab(probe_tasks[i]))
    /\ \/ probe_tasks' = [probe_tasks EXCEPT ![i].pc = "apply"]
       \/ probe_tasks' = [probe_tasks EXCEPT ![i] = ProbeRaise(@)]
    /\ UNCHANGED <<pc, name, state, states_to_search, state_idx, browser, page_tasks, crawl,
                   doctors, doctor_found, doctor_info, verified_insurance, webmd_data, fn>>

\* A variant of the apply button whose failure is not caught.
ProbeApplyFatal(i) ==
    /\ pc = "gather_probes"
    /\ probe_tasks[i].pc = "apply"
    /\ tabs' = Touch(tabs, ProbeTask(i), OwnTab(probe_tasks[i]))
    /\ \/ probe_tasks' = [probe_tasks EXCEPT ![i].pc = "apply_click"]
       \/ probe_tasks' = [probe_tasks EXCEPT ![i] = ProbeRaise(@)]
    /\ UNCHANGED <<pc, name, state, states_to_search, state_idx, browser, page_tasks, crawl,
                   doctors, doctor_found, doctor_info, verified_insurance, webmd_data, fn>>

\* funtion.py:1033-1035, 1037  await apply_button.wait_for(state="visible", timeout=5000); its
\* exception is caught at 1037 and the Enter key is tried
ProbeApply(i) ==
    /\ pc = "gather_probes"
    /\ probe_tasks[i].pc = "apply"
    /\ tabs' = Touch(tabs, ProbeTask(i), OwnTab(probe_tasks[i]))
    /\ \/ probe_tasks' = [probe_tasks EXCEPT ![i].pc = "apply_click"]
       \/ probe_tasks' = [probe_tasks EXCEPT ![i].pc = "press_enter"]
    /\ UNCHANGED <<pc, name, state, states_to_search, state_idx, browser, page_tasks, crawl,
                   doctors, doctor_found, doctor_info, verified_insurance, webmd_data, fn>>

\* funtion.py:1036-1037  await apply_button.click(); its exception is caught at 1037 too
ProbeApplyClick(i) ==
    /\ pc = "gather_probes"
    /\ probe_tasks[i].pc = "apply_click"
    /\ tabs' = Touch(tabs, ProbeTask(i), OwnTab(probe_tasks[i]))
    /\ \/ probe_tasks' = [probe_tasks EXCEPT ![i] =
              [ProbeLocalsDone(@) EXCEPT !.pc = "wait_results", !.submitted = "button"]]
       \/ probe_tasks' = [probe_tasks EXCEPT ![i].pc = "press_enter"]
    /\ UNCHANGED <<pc, name, state, states_to_search, state_idx, browser, page_tasks, crawl,
                   doctors, doctor_found, doctor_info, verified_insurance, webmd_data, fn>>

\* A variant of the Enter fallback that goes on to the results when the key press failed.
ProbePressEnterIgnored(i) ==
    /\ pc = "gather_probes"
    /\ probe_tasks[i].pc = "press_enter"
    /\ tabs' = Touch(tabs, ProbeTask(i), OwnTab(probe_tasks[i]))
    /\ \/ probe_tasks' = [probe_tasks EXCEPT ![i] =
              [ProbeLocalsDone(@) EXCEPT !.pc = "wait_results", !.submitted = "enter"]]
       \/ probe_tasks' = [probe_tasks EXCEPT ![i] =
              [ProbeLocalsDone(@) EXCEPT !.pc = "wait_results"]]
    /\ UNCHANGED <<pc, name, state, states_to_search, state_idx, browser, page_tasks, crawl,
                   doctors, doctor_found, doctor_info, verified_insurance, webmd_data, fn>>

\* funtion.py:1038-1043  fallback: search_input.press("Enter"); when it fails: return False
ProbePressEnter(i) ==
    /\ pc = "gather_probes"
    /\ probe_tasks[i].pc = "press_enter"
    /\ tabs' = Touch(tabs, ProbeTask(i), OwnTab(probe_tasks[i]))
    /\ \/ probe_tasks' = [probe_tasks EXCEPT ![i] =
              [ProbeLocalsDone(@) EXCEPT !.pc = "wait_results", !.submitted = "enter"]]
       \/ probe_tasks' = [probe_tasks EXCEPT ![i] = ProbeReturn(@, "no_search", FALSE)]
    /\ UNCHANGED <<pc, name, state, states_to_search, state_idx, browser, page_tasks, crawl,
                   doctors, doctor_found, doctor_info, verified_insurance, webmd_data, fn>>

\* funtion.py:1046  wait_for_timeout(2000)
ProbeWaitResults(i) ==
    /\ pc = "gather_probes"
    /\ probe_tasks[i].pc = "wait_results"
    /\ tabs' = Touch(tabs, ProbeTask(i), OwnTab(probe_tasks[i]))
    /\ \/ probe_tasks' = [probe_tasks EXCEPT ![i] =
              [ProbeLocalsDone(@) EXCEPT !.pc = "networkidle2"]]
       \/ probe_tasks' = [probe_tasks EXCEPT ![i] = ProbeRaise(@)]
    /\ UNCHANGED <<pc, name, state, states_to_search, state_idx, browser, page_tasks, crawl,
                   doctors, doctor_found, doctor_info, verified_insurance, webmd_data, fn>>

\* A variant of the wait for the results in which the timeout is not caught.
ProbeAwaitIdleFatal(i) ==
    /\ pc = "gather_probes"
    /\ probe_tasks[i].pc = "networkidle2"
    /\ tabs' = Touch(tabs, ProbeTask(i), OwnTab(probe_tasks[i]))
    /\ \/ probe_tasks' = [probe_tasks EXCEPT ![i].pc = "count"]
       \/ probe_tasks' = [probe_tasks EXCEPT ![i] = ProbeRaise(@)]
    /\ UNCHANGED <<pc, name, state, states_to_search, state_idx, browser, page_tasks, crawl,
                   doctors, doctor_found, doctor_info, verified_insurance, webmd_data, fn>>

\* funtion.py:1048-1051  wait_for_load_state("networkidle", timeout=5000); a timeout is caught
ProbeAwaitIdle(i) ==
    /\ pc = "gather_probes"
    /\ probe_tasks[i].pc = "networkidle2"
    /\ tabs' = Touch(tabs, ProbeTask(i), OwnTab(probe_tasks[i]))
    /\ \/ probe_tasks' = [probe_tasks EXCEPT ![i].pc = "count"]
       \/ probe_tasks' = [probe_tasks EXCEPT ![i].pc = "fallback_wait2"]
    /\ UNCHANGED <<pc, name, state, states_to_search, state_idx, browser, page_tasks, crawl,
                   doctors, doctor_found, doctor_info, verified_insurance, webmd_data, fn>>

\* funtion.py:1051  wait_for_timeout(1000) in the handler of the timeout; an exception
\* raised in the handler reaches the outer except block
ProbeFallbackWait2(i) ==
    /\ pc = "gather_probes"
    /\ probe_tasks[i].pc = "fallback_wait2"
    /\ tabs' = Touch(tabs, ProbeTask(i), OwnTab(probe_tasks[i]))
    /\ \/ probe_tasks' = [probe_tasks EXCEPT ![i].pc = "count"]
       \/ probe_tasks' = [probe_tasks EXCEPT ![i] = ProbeRaise(@)]
    /\ UNCHANGED <<pc, name, state, states_to_search, state_idx, browser, page_tasks, crawl,
                   doctors, doctor_found, doctor_info, verified_insurance, webmd_data, fn>>

\* funtion.py:1057-1060  await verify_elements.count(): the result page is read; without
\* verification elements the content is read next
ProbeCount(i) ==
    /\ pc = "gather_probes"
    /\ probe_tasks[i].pc = "count"
    /\ tabs' = Touch(tabs, ProbeTask(i), OwnTab(probe_tasks[i]))
    /\ \/ \E pg \in ResultPageShown :
            probe_tasks' = [probe_tasks EXCEPT
                ![i].page = <<pg>>,
                ![i].pc = IF Len(pg.verify_texts) > 0 THEN "count_again" ELSE "content"]
       \/ probe_tasks' = [probe_tasks EXCEPT ![i] = ProbeRaise(@)]
    /\ UNCHANGED <<pc, name, state, states_to_search, state_idx, browser, page_tasks, crawl,
                   doctors, doctor_found, doctor_info, verified_insurance, webmd_data, fn>>

\* funtion.py:1061  range(await verify_elements.count()): the elements are counted a
\* second time, and this count, whatever the first one was, is the number of rounds of the
\* loop; with none the content is read next
ProbeCountAgain(i) ==
    /\ pc = "gather_probes"
    /\ probe_tasks[i].pc = "count_again"
    /\ tabs' = Touch(tabs, ProbeTask(i), OwnTab(probe_tasks[i]))
    /\ \/ \E n \in 0..MaxVerifyCount :
            probe_tasks' = [probe_tasks EXCEPT ![i] =
                IF n > 0
                THEN [@ EXCEPT !.pc = "text_content", !.count = n, !.elem = 1]
                ELSE [@ EXCEPT !.pc = "content"]]
       \/ probe_tasks' = [probe_tasks EXCEPT ![i] = ProbeRaise(@)]
    /\ UNCHANGED <<pc, name, state, states_to_search, state_idx, browser, page_tasks, crawl,
                   doctors, doctor_found, doctor_info, verified_insurance, webmd_data, fn>>

\* funtion.py:1062-1065  await verify_elements.nth(i).text_content(): return True when the
\* text accepts the plan, else the next element or, after the last round, the content (count
\* still holds the number of rounds).  An element the page does not have gives no text: the
\* call ends by its timeout, an exception.
ProbeTextContent(i) ==
    /\ pc = "gather_probes"
    /\ probe_tasks[i].pc = "text_content"
    /\ tabs' = Touch(tabs, ProbeTask(i), OwnTab(probe_tasks[i]))
    /\ \/ /\ probe_tasks[i].elem <= Len(probe_tasks[i].page[1].verify_texts)
          /\ probe_tasks' = [probe_tasks EXCEPT ![i] =
                 IF ElementAccepts[@.page[1]][i][@.elem]
                 THEN ProbeReturn(@, "accepted", TRUE)
                 ELSE IF @.elem < @.count
                 THEN [@ EXCEPT !.elem = @ + 1]
                 ELSE [@ EXCEPT !.pc = "content", !.elem = 0]]
       \/ probe_tasks' = [probe_tasks EXCEPT ![i] = ProbeRaise(@)]
    /\ UNCHANGED <<pc, name, state, states_to_search, state_idx, browser, page_tasks, crawl,
                   doctors, doctor_found, doctor_info, verified_insurance, webmd_data, fn>>

\* funtion.py:1068-1096  await new_page.content(), the acceptance patterns, then the
\* rejection patterns
ProbeContent(i) ==
    /\ pc = "gather_probes"
    /\ probe_tasks[i].pc = "content"
    /\ tabs' = Touch(tabs, ProbeTask(i), OwnTab(probe_tasks[i]))
    /\ \/ probe_tasks' = [probe_tasks EXCEPT ![i] =
              LET outcome == ContentOutcomeOf[@.page[1]][i]
              IN  ProbeReturn(@, outcome, outcome = "accepted")]
       \/ probe_tasks' = [probe_tasks EXCEPT ![i] = ProbeRaise(@)]
    /\ UNCHANGED <<pc, name, state, states_to_search, state_idx, browser, page_tasks, crawl,
                   doctors, doctor_found, doctor_info, verified_insurance, webmd_data, fn>>

\* funtion.py:1101-1107  the finally block closes the tab (an error of close() is swallowed),
\* then the coroutine's result is set
ProbeClose(i) ==
    /\ pc = "gather_probes"
    /\ probe_tasks[i].pc = "finally"
    /\ tabs' = ProbeFinally(tabs, i, probe_tasks[i])
    /\ probe_tasks' = [probe_tasks EXCEPT ![i].pc = "done",
                                          ![i].ret = <<probe_tasks[i].result>>]
    /\ UNCHANGED <<pc, name, state, states_to_search, state_idx, browser, page_tasks, crawl,
                   doctors, doctor_found, doctor_info, verified_insurance, webmd_data, fn>>

(***************************************************************************)
(* Aggregation coordinator: _scrape_webmd_with_playwright, 591-665, with   *)
(* the profile part of _scrape_doctor_overview, 788-951                    *)
(***************************************************************************)
\* funtion.py:593-599: webmd_data before any update.  Of the record the model keeps the
\* verified attribute and the profile URL (<<>>: the key is absent).
InitialWebmdData == [affiliated_insurance_networks |-> <<>>, webmd_profile_url |-> <<>>]

\* funtion.py:602  async with async_playwright() as p: the context manager is entered; an
\* exception ends the run at 661
StartPlaywright ==
    /\ pc = "start"
    /\ pc' \in {"launch", "done"}
    /\ UNCHANGED <<name, state, states_to_search, state_idx, browser, tabs, page_tasks, crawl,
                   doctors, doctor_found, doctor_info, probe_tasks, verified_insurance,
                   webmd_data, fn>>

\* funtion.py:603-606  browser = await p.chromium.launch(...); an exception leaves the with
\* block
LaunchBrowser ==
    /\ pc = "launch"
    /\ \/ browser' = "open" /\ pc' = "new_context"
       \/ pc' = "stop_playwright" /\ UNCHANGED browser
    /\ UNCHANGED <<name, state, states_to_search, state_idx, tabs, page_tasks, crawl, doctors,
                   doctor_found, doctor_info, probe_tasks, verified_insurance, webmd_data, fn>>

\* funtion.py:608-616  context = await browser.new_context(...)
NewContext ==
    /\ pc = "new_context"
    /\ pc' \in {"new_page", "stop_playwright"}
    /\ UNCHANGED <<name, state, states_to_search, state_idx, browser, tabs, page_tasks, crawl,
                   doctors, doctor_found, doctor_info, probe_tasks, verified_insurance,
                   webmd_data, fn>>

\* funtion.py:618-623  page = await context.new_page(), states_to_search, doctor_found = None
OpenMainPage ==
    /\ pc = "new_page"
    /\ \/ /\ tabs' = NewPage(tabs, MAIN, MAIN)
          /\ states_to_search' = IF state # <<>> THEN <<state[1]>> ELSE DefaultStates
          /\ state_idx' = 1
          /\ pc' = "loop"
       \/ pc' = "stop_playwright" /\ UNCHANGED <<tabs, states_to_search, state_idx>>
    /\ UNCHANGED <<name, state, browser, page_tasks, crawl, doctors, doctor_found, doctor_info,
                   probe_tasks, verified_insurance, webmd_data, fn>>

\* The lists a crawl can return, and _find_doctor_in_results for every target name and
\* every such list, tabulated.
CrawlResults ==
    {DedupByUrl(CollectDoctors(page_results, 1), <<>>) :
        page_results \in [1..MaxPages -> {EntriesOf[providers] : providers \in ListingPages}]}
FoundIn ==
    [target_name \in TargetNames \cup EmptyTargets |->
        [ds \in CrawlResults |-> _find_doctor_in_results(ds, target_name)]]

\* funtion.py:634-641  if doctors: doctor_found = find...; if doctor_found: break.
\* The frame of _scrape_doctors_from_webmd and its finished coroutines are gone; doctors is
\* not read after the matcher has run.
Match ==
    /\ pc = "crawl_return"
    /\ LET found == IF doctors # <<>> THEN FoundIn[name][doctors] ELSE <<>>
       IN  /\ doctor_found' = found
           /\ IF found # <<>>
              THEN pc' = "profile_goto" /\ state_idx' = state_idx
              ELSE pc' = "loop" /\ state_idx' = state_idx + 1
    /\ doctors' = <<>>
    /\ crawl' = <<>>
    /\ page_tasks' = <<>>
    /\ tabs' = ForgetClosed(tabs)
    /\ UNCHANGED <<name, state, states_to_search, browser, doctor_info, probe_tasks,
                   verified_insurance, webmd_data, fn>>

\* funtion.py:625, 643  the loop ends without a match: doctor_found is None
LoopEnd ==
    /\ pc = "loop"
    /\ state_idx > Len(states_to_search)
    /\ pc' = "close_browser"
    /\ UNCHANGED <<name, state, states_to_search, state_idx, browser, tabs, page_tasks, crawl, doctors,
                   doctor_found, doctor_info, probe_tasks, verified_insurance, webmd_data, fn>>

\* funtion.py:648-655  webmd_data.update(...) from details
UpdatedWebmdData(details, found) ==
    [affiliated_insurance_networks |->
        IF details = <<>> THEN <<>> ELSE details[1].insurance_accepted,
     webmd_profile_url |-> <<found.url>>]

\* funtion.py:797  page.goto(url) on the main page; on an exception line 812 returns {}.
\* search_state is not read after the loop: the model keeps its index while the goto is
\* awaited and drops it here.
ProfileGoto ==
    /\ pc = "profile_goto"
    /\ tabs' = Touch(tabs, MAIN, MAIN)
    /\ state_idx' = 0
    /\ \/ pc' = "profile_idle" /\ UNCHANGED webmd_data
       \/ /\ webmd_data' = UpdatedWebmdData(<<>>, doctor_found[1])
          /\ pc' = "close_browser"
    /\ UNCHANGED <<name, state, states_to_search, browser, page_tasks, crawl, doctors,
                   doctor_found, doctor_info, probe_tasks, verified_insurance, fn>>

\* funtion.py:800-803  await page.wait_for_load_state("networkidle"), whose exception is
\* caught at 803
ProfileStabilize ==
    /\ pc = "profile_idle"
    /\ tabs' = Touch(tabs, MAIN, MAIN)
    /\ pc' \in {"profile_settle", "profile_fallback"}
    /\ UNCHANGED <<name, state, states_to_search, state_idx, browser, page_tasks, crawl, doctors,
                   doctor_found, doctor_info, probe_tasks, verified_insurance, webmd_data, fn>>

\* funtion.py:806  await page.wait_for_timeout(5000) in the handler; its exception makes line
\* 812 return {}
ProfileFallbackWait ==
    /\ pc = "profile_fallback"
    /\ tabs' = Touch(tabs, MAIN, MAIN)
    /\ \/ pc' = "profile_settle" /\ UNCHANGED webmd_data
       \/ /\ webmd_data' = UpdatedWebmdData(<<>>, doctor_found[1])
          /\ pc' = "close_browser"
    /\ UNCHANGED <<name, state, states_to_search, state_idx, browser, page_tasks, crawl, doctors,
                   doctor_found, doctor_info, probe_tasks, verified_insurance, fn>>

\* funtion.py:808  await page.wait_for_timeout(2000); its exception makes line 812 return {}
ProfileSettle ==
    /\ pc = "profile_settle"
    /\ tabs' = Touch(tabs, MAIN, MAIN)
    /\ \/ pc' = "profile_content" /\ UNCHANGED webmd_data
       \/ /\ webmd_data' = UpdatedWebmdData(<<>>, doctor_found[1])
          /\ pc' = "close_browser"
    /\ UNCHANGED <<name, state, states_to_search, state_idx, browser, page_tasks, crawl, doctors,
                   doctor_found, doctor_info, probe_tasks, verified_insurance, fn>>

\* funtion.py:815-925  content(), the passive extraction, then the probe coroutines are built
\* and handed to gather.  content() is outside the try block: its exception leaves the with
\* block and ends the run at 661.
ProfileContent ==
    /\ pc = "profile_content"
    /\ tabs' = Touch(tabs, MAIN, MAIN)
    /\ \/ \E passive \in PassiveInsurance :
            /\ doctor_info' = << [insurance_accepted |-> passive] >>
            /\ verified_insurance' = <<>>
            /\ probe_tasks' = [i \in 1..Len(insurance_plans_to_check) |->
                                   NewProbeTask(doctor_found[1].url, insurance_plans_to_check[i])]
            /\ pc' = "gather_probes"
       \/ pc' = "stop_playwright" /\ UNCHANGED <<doctor_info, verified_insurance, probe_tasks>>
    /\ UNCHANGED <<name, state, states_to_search, state_idx, browser, page_tasks, crawl, doctors,
                   doctor_found, webmd_data, fn>>

\* A variant of the result loop that takes every label, whatever its probe returned.
AllLabels(plans, insurance_results, i) == SubSeq(plans, i, Len(plans))

\* funtion.py:928-935: the labels whose probe returned a true value, in checklist order
RECURSIVE VerifiedLabels(_, _, _)
VerifiedLabels(plans, insurance_results, i) ==
    IF i > Len(plans) THEN <<>>
    ELSE (IF insurance_results[i] = TRUE THEN <<plans[i]>> ELSE <<>>)
             \o VerifiedLabels(plans, insurance_results, i + 1)

\* list(dict.fromkeys(xs)): the first occurrence of every value, in order
RECURSIVE DedupKeepOrder(_, _)
DedupKeepOrder(xs, acc) ==
    IF xs = <<>> THEN acc
    ELSE DedupKeepOrder(Tail(xs),
            IF \E k \in 1..Len(acc) : acc[k] = Head(xs) THEN acc ELSE Append(acc, Head(xs)))

\* funtion.py:925-947  the gather barrier, the result loop and the merge into the profile
VerifyMerge ==
    /\ pc = "gather_probes"
    /\ GatherDone(probe_tasks)
    /\ LET insurance_results == GatherResults(probe_tasks, FALSE)
           verified == VerifiedLabels(insurance_plans_to_check, insurance_results, 1)
       IN  /\ verified_insurance' = verified
           /\ doctor_info' = << [insurance_accepted |->
                    DedupKeepOrder(doctor_info[1].insurance_accepted \o verified, <<>>)] >>
    /\ pc' = "overview_return"
    /\ UNCHANGED <<name, state, states_to_search, state_idx, browser, tabs, page_tasks, crawl,
                   doctors, doctor_found, probe_tasks, webmd_data, fn>>

\* funtion.py:951, 645-655  _scrape_doctor_overview returns, webmd_data.update(...)
UpdateRecord ==
    /\ pc = "overview_return"
    /\ webmd_data' = UpdatedWebmdData(doctor_info, doctor_found[1])
    /\ probe_tasks' = <<>>
    /\ tabs' = ForgetClosed(tabs)
    /\ pc' = "close_browser"
    /\ UNCHANGED <<name, state, states_to_search, state_idx, browser, page_tasks, crawl, doctors,
                   doctor_found, doctor_info, verified_insurance, fn>>

\* funtion.py:659  await browser.close(), the last statement of the with block; an exception
\* of close() is caught at 661 like every other
CloseBrowser ==
    /\ pc = "close_browser"
    /\ \/ browser' = "closed"
       \/ browser' = browser      \* close() raised, 661-663: the browser was not closed
    /\ pc' = "stop_playwright"
    /\ UNCHANGED <<name, state, states_to_search, state_idx, tabs, page_tasks, crawl, doctors,
                   doctor_found, doctor_info, probe_tasks, verified_insurance, webmd_data, fn>>

\* funtion.py:602, 661-665  the with block is left, by its end or by an exception: the context
\* manager's exit is awaited, then webmd_data is returned
StopPlaywright ==
    /\ pc = "stop_playwright"
    /\ pc' = "done"
    /\ UNCHANGED <<name, state, states_to_search, state_idx, browser, tabs, page_tasks, crawl,
                   doctors, doctor_found, doctor_info, probe_tasks, verified_insurance,
                   webmd_data, fn>>

(***************************************************************************)
(* The run                                                                 *)
(***************************************************************************)
InitRun(names) ==
    /\ pc = "start"
    /\ name \in names
    /\ state \in StateArgs
    /\ states_to_search = <<>>
    /\ state_idx = 0
    /\ browser = "none"
    /\ tabs = <<>>
    /\ page_tasks = <<>>
    /\ crawl = <<>>
    /\ doctors = <<>>
    /\ doctor_found = <<>>
    /\ doctor_info = <<>>
    /\ probe_tasks = <<>>
    /\ verified_insurance = <<>>
    /\ webmd_data = InitialWebmdData
    /\ fn = [op |-> "none"]

Init == InitRun({DrSaraJohnson})

PageStep(p) ==
    \/ PageOpen(p) \/ PageGoto(p) \/ PageGotoWait(p) \/ PageScroll(p) \/ PageScrollWait(p)
    \/ PageParse(p) \/ PageClose(p)

ProbeStep(i) ==
    \/ ProbeOpen(i) \/ ProbeGoto(i) \/ ProbeStabilize(i) \/ ProbeFallbackWait(i)
    \/ ProbeScrollTop(i) \/ ProbeScrollTopWait(i)
    \/ ProbeSectionScroll(i) \/ ProbeSectionScrollWait(i) \/ ProbeSectionVisible(i)
    \/ ProbeLocatePrimary(i) \/ ProbeLocateFallback(i)
    \/ ProbeClick(i) \/ ProbeClickWait(i) \/ ProbeFill(i) \/ ProbeFillWait(i)
    \/ ProbeType(i) \/ ProbeTypeWait(i)
    \/ ProbeApply(i) \/ ProbeApplyClick(i) \/ ProbePressEnter(i)
    \/ ProbeWaitResults(i) \/ ProbeAwaitIdle(i) \/ ProbeFallbackWait2(i)
    \/ ProbeCount(i) \/ ProbeCountAgain(i) \/ ProbeTextContent(i) \/ ProbeContent(i)
    \/ ProbeClose(i)

Next ==
    \/ StartPlaywright \/ LaunchBrowser \/ NewContext \/ OpenMainPage \/ StartCrawl
    \/ \E p \in 1..MaxPages : PageStep(p)
    \/ CrawlMerge \/ Match \/ LoopEnd
    \/ ProfileGoto \/ ProfileStabilize \/ ProfileFallbackWait \/ ProfileSettle
    \/ ProfileContent
    \/ \E i \in 1..Len(insurance_plans_to_check) : ProbeStep(i)
    \/ VerifyMerge \/ UpdateRecord \/ CloseBrowser \/ StopPlaywright

Spec == Init /\ [][Next]_vars

(***************************************************************************)
(* Function-level specification of the entity matcher: the inputs are      *)
(* drawn by the initial states and the action applies the matcher.         *)
(***************************************************************************)
SarahJohnson == <<"S","a","r","a","h"," ","J","o","h","n","s","o","n">>
JohnsonSara == <<"J","o","h","n","s","o","n"," ","S","a","r","a">>
JohnsonOnly == <<"j","o","h","n","s","o","n">>
DrSaraJohnsonsMD == <<"D","r","."," ","S","a","r","a"," ","J","o","h","n","s","o","n","s",","," ","M","D">>
JohnsonCommaSara == <<"J","o","h","n","s","o","n",","," ","S","a","r","a">>
PathA == <<"/","a">>
PathB == <<"/","b">>
PathC == <<"/","c">>
PathD == <<"/","d">>
PathE == <<"/","e">>
PathF == <<"/","f">>
SaraKJohnson == <<"S","a","r","a"," ","K","."," ","J","o","h","n","s","o","n">>
PathJ == <<"/","j">>
JOSERUIZ == <<"J","O","S","É"," ","R","U","I","Z">>
JoseRuiz == <<"J","o","s","é"," ","R","u","i","z">>

MatchTargets ==
    {DrSaraJohnson, SarahJohnson, JohnsonSara, JohnsonOnly, SaraWilliams, DrOnly, JoseRuiz}
MatchCandidates ==
    {[name |-> SarahKJohnson, url |-> PathA],
     [name |-> SaraWilliams, url |-> PathB],
     [name |-> DrSaraJohnsonsMD, url |-> PathC],
     [name |-> SarahKJohnson, url |-> PathD],
     [name |-> JohnsonCommaSara, url |-> PathE],
     [name |-> SaraKJohnson, url |-> PathF],
     [name |-> JOSERUIZ, url |-> PathJ]}

\* No run is in progress.
IdleRun ==
    /\ pc = "idle"
    /\ name = <<>>
    /\ state = <<>>
    /\ states_to_search = <<>>
    /\ state_idx = 0
    /\ browser = "none"
    /\ tabs = <<>>
    /\ page_tasks = <<>>
    /\ crawl = <<>>
    /\ doctors = <<>>
    /\ doctor_found = <<>>
    /\ doctor_info = <<>>
    /\ probe_tasks = <<>>
    /\ verified_insurance = <<>>
    /\ webmd_data = InitialWebmdData

runVars == <<pc, name, state, states_to_search, state_idx, browser, tabs, page_tasks, crawl,
             doctors, doctor_found, doctor_info, probe_tasks, verified_insurance, webmd_data>>

InitMatch ==
    /\ IdleRun
    /\ \E target \in MatchTargets, ds \in SeqsUpTo(MatchCandidates, MaxCandidates) :
          fn = [op |-> "find", target |-> target, doctors |-> ds, done |-> FALSE,
                found |-> <<>>, accepts |-> <<>>, ref_found |-> <<>>, ref_accepts |-> <<>>]

\* The matchers applied to the candidate list (found, ref_found) and to every candidate on
\* its own (accepts, ref_accepts).
ApplyFind ==
    /\ fn.op = "find"
    /\ ~fn.done
    /\ fn' = [fn EXCEPT
          !.done = TRUE,
          !.found = _find_doctor_in_results(fn.doctors, fn.target),
          !.accepts = [k \in 1..Len(fn.doctors) |->
                          _find_doctor_in_results(<<fn.doctors[k]>>, fn.target) # <<>>],
          !.ref_found = find_doctor(fn.doctors, fn.target),
          !.ref_accepts = [k \in 1..Len(fn.doctors) |->
                              find_doctor(<<fn.doctors[k]>>, fn.target) # <<>>]]
    /\ UNCHANGED runVars

NextMatch == ApplyFind

SpecMatch == InitMatch /\ [][NextMatch]_vars

(***************************************************************************)
(* Properties of the run (specification Spec)                              *)
(***************************************************************************)

\* C1: a verification probe that opened a tab has closed it, exactly once, by the time its
\* boolean outcome is set as the result of its future, whatever exit it took (accepted,
\* rejected, no clear result, input field not found, search not triggered, exception); so
\* the coordinator, which reads the outcomes after the barrier, never sees an outcome of a
\* probe whose tab is still open.
C1_ProbeTabClosedBeforeOutcome ==
    /\ \A i \in DOMAIN probe_tasks :
          LET t == probe_tasks[i]
          IN  (t.ret # <<>> /\ t.new_page # <<>>) =>
                  /\ t.new_page[1] \in DOMAIN tabs
                  /\ tabs[t.new_page[1]].state = "closed"
                  /\ tabs[t.new_page[1]].closes = 1
    /\ pc = "overview_return" => \A t \in OpenTabs : t[1] # "probe"

\* C1 witness: one probe left through the exception handler and another returned an
\* accepted outcome; both had opened a tab, both outcomes are set and both tabs are closed.
C1_Witness ==
    /\ Len(probe_tasks) >= 2
    /\ probe_tasks[1].exit = "exception" /\ probe_tasks[1].new_page # <<>>
    /\ probe_tasks[1].ret = <<FALSE>>
    /\ probe_tasks[2].exit = "accepted" /\ probe_tasks[2].ret = <<TRUE>>
    /\ \A i \in 1..2 : /\ ProbeTask(i) \in DOMAIN tabs
                       /\ tabs[ProbeTask(i)].state = "closed"

\* C2: a page fetch that opened a tab has closed it, exactly once, by the time it has
\* finished, on every exit path: entries extracted, no providers found, exception.
C2_PageTabClosedOnEveryExit ==
    /\ \A p \in DOMAIN page_tasks :
          LET t == page_tasks[p]
          IN  ((t.pc = "done" \/ t.ret # <<>>) /\ t.new_page # <<>>) =>
                  /\ t.new_page[1] \in DOMAIN tabs
                  /\ tabs[t.new_page[1]].state = "closed"
                  /\ tabs[t.new_page[1]].closes = 1
    /\ pc = "crawl_return" => \A t \in OpenTabs : t[1] # "page"

\* C2 witness: one page fetch ended in the exception handler after it had opened its tab,
\* the other returned extracted entries; both tabs are closed.
C2_Witness ==
    /\ Len(page_tasks) >= 2
    /\ page_tasks[1].pc = "done" /\ page_tasks[1].raised /\ page_tasks[1].new_page # <<>>
    /\ page_tasks[2].pc = "done" /\ ~page_tasks[2].raised /\ page_tasks[2].ret # <<>>
    /\ page_tasks[2].ret[1] # <<>>
    /\ \A p \in 1..2 : /\ PageTask(p) \in DOMAIN tabs
                       /\ tabs[PageTask(p)].state = "closed"

\* C3: in every interleaving, the last operation on every tab was made by the task that
\* opened it, a tab is closed at most once (and by its owner), every task works on a tab it
\* owns, and the shared main page is touched by the aggregation coordinator only.
C3_TabsTouchedOnlyByOwner ==
    /\ \A t \in DOMAIN tabs :
          /\ tabs[t].lastActor = tabs[t].owner
          /\ tabs[t].closes <= 1
          /\ (tabs[t].state = "closed") <=> (tabs[t].closes = 1)
    /\ MAIN \in DOMAIN tabs => tabs[MAIN].owner = MAIN /\ tabs[MAIN].lastActor = MAIN
    /\ \A p \in DOMAIN page_tasks :
          page_tasks[p].new_page # <<>> =>
              /\ page_tasks[p].new_page[1] \in DOMAIN tabs
              /\ tabs[page_tasks[p].new_page[1]].owner = PageTask(p)
    /\ \A i \in DOMAIN probe_tasks :
          probe_tasks[i].new_page # <<>> =>
              /\ probe_tasks[i].new_page[1] \in DOMAIN tabs
              /\ tabs[probe_tasks[i].new_page[1]].owner = ProbeTask(i)

\* C3 witness: two probes are in the middle of their steps at the same time, the first between
\* its click and the wait after it, the second between the scroll call and the wait of its
\* second scroll step or a later one, each on its own open tab, while the main page is open too.
C3_Witness ==
    /\ Len(probe_tasks) >= 2
    /\ probe_tasks[1].pc = "click_wait" /\ probe_tasks[2].pc = "scroll_wait"
    /\ probe_tasks[2].scroll_step >= 2
    /\ {MAIN, ProbeTask(1), ProbeTask(2)} \subseteq OpenTabs

\* C4: the crawl coordinator has a merged result only when every one of its page tasks has
\* finished (returned a list, empty when it failed); while it waits at the barrier nothing
\* is merged, and the merged result is built from the results of all the tasks.
C4_MergeAfterAllPagesFinished ==
    /\ pc = "gather_pages" => crawl = <<>> /\ doctors = <<>>
    /\ crawl # <<>> =>
          /\ Len(page_tasks) = MaxPages
          /\ Len(crawl[1].page_results) = MaxPages
          /\ \A p \in DOMAIN page_tasks :
                /\ page_tasks[p].pc = "done"
                /\ page_tasks[p].ret # <<>>
                /\ crawl[1].page_results[p] = page_tasks[p].ret[1]

\* C4 witness: the merge has happened after a crawl in which the last page task failed and
\* the first returned entries.
C4_Witness ==
    /\ pc = "crawl_return" /\ crawl # <<>>
    /\ page_tasks[1].ret # <<>> /\ page_tasks[1].ret[1] # <<>>
    /\ page_tasks[MaxPages].raised
    /\ crawl[1].unique_doctors = page_tasks[1].ret[1]

\* C5: the verification coordinator builds one probe per checklist item, probe i for item i,
\* every probe against the URI of the matched profile; all the probes exist before any of
\* them has run, and while any of them is still running no label is merged: the profile
\* holds its passive items only and the record is untouched.  The merge has happened only
\* when every probe has finished.
C5_ProbesPerItemAndBarrier ==
    /\ pc \in {"gather_probes", "overview_return"} =>
          /\ Len(probe_tasks) = Len(insurance_plans_to_check)
          /\ \A i \in DOMAIN probe_tasks :
                /\ probe_tasks[i].insurance_name = insurance_plans_to_check[i]
                /\ probe_tasks[i].url = doctor_found[1].url
    /\ pc = "gather_probes" =>
          /\ verified_insurance = <<>>
          /\ doctor_info[1].insurance_accepted \in PassiveInsurance
          /\ webmd_data = InitialWebmdData
    /\ (\E i \in DOMAIN probe_tasks : probe_tasks[i].pc # "done") =>
          /\ pc = "gather_probes"
          /\ verified_insurance = <<>>
    /\ pc = "overview_return" =>
          \A i \in DOMAIN probe_tasks : probe_tasks[i].pc = "done" /\ probe_tasks[i].ret # <<>>

\* C5 witness: every probe of the checklist is in flight at the same time, each past its
\* navigation on an open tab, and nothing has been merged.
C5_Witness ==
    /\ pc = "gather_probes"
    /\ Len(probe_tasks) = Len(insurance_plans_to_check)
    /\ \A i \in DOMAIN probe_tasks :
          /\ probe_tasks[i].pc \in {"click_wait", "fill", "apply_click", "content"}
          /\ ProbeTask(i) \in OpenTabs
    /\ probe_tasks[1].pc # probe_tasks[2].pc
    /\ verified_insurance = <<>>

\* The number of entries the page results before page p hold.
RECURSIVE EntriesBefore(_, _)
EntriesBefore(tasks, p) ==
    IF p <= 1 THEN 0 ELSE EntriesBefore(tasks, p - 1) + Len(tasks[p - 1].ret[1])

\* C6: after the crawl barrier the result of every page task, failed or not, is what the
\* merge holds for that page number: the collected list has the entries of page p, unchanged
\* and in order, after those of the pages before it, and the URI of every one of them is in
\* the merged output.  After the probe barrier the verified labels are exactly the labels of
\* the probes that returned true, in checklist order, and each is in the profile; a probe
\* that failed contributes nothing and removes nothing.
C6_PartialFailureIsolation ==
    /\ crawl # <<>> =>
          /\ \A p \in DOMAIN page_tasks :
                LET own == page_tasks[p].ret[1]
                    off == EntriesBefore(page_tasks, p)
                IN  /\ crawl[1].page_results[p] = own
                    /\ \A k \in 1..Len(own) :
                          /\ off + k <= Len(crawl[1].all_doctors)
                          /\ crawl[1].all_doctors[off + k] = own[k]
                          /\ \E j \in 1..Len(crawl[1].unique_doctors) :
                                crawl[1].unique_doctors[j].url = own[k].url
          /\ Len(crawl[1].all_doctors) = EntriesBefore(page_tasks, Len(page_tasks) + 1)
    /\ pc = "overview_return" =>
          /\ \A i \in DOMAIN probe_tasks :
                (probe_tasks[i].ret = <<TRUE>>) <=>
                    (\E k \in 1..Len(verified_insurance) :
                        verified_insurance[k] = insurance_plans_to_check[i])
          /\ \A k \in 1..Len(verified_insurance) :
                \E j \in 1..Len(doctor_info[1].insurance_accepted) :
                    doctor_info[1].insurance_accepted[j] = verified_insurance[k]
          /\ \A k, l \in 1..Len(verified_insurance) :
                k < l => \E i, j \in DOMAIN probe_tasks :
                            /\ i < j
                            /\ verified_insurance[k] = insurance_plans_to_check[i]
                            /\ verified_insurance[l] = insurance_plans_to_check[j]

\* C6 witness: the first page fetch failed with an exception and the last one returned
\* entries, which are the merged output of the crawl.
C6_Witness ==
    /\ crawl # <<>>
    /\ page_tasks[1].raised /\ page_tasks[1].ret = << <<>> >>
    /\ page_tasks[MaxPages].ret[1] # <<>>
    /\ crawl[1].page_results[MaxPages] = page_tasks[MaxPages].ret[1]
    /\ \E j \in 1..Len(crawl[1].unique_doctors) :
          crawl[1].unique_doctors[j] = page_tasks[MaxPages].ret[1][1]

\* C7: in the merged output of a crawl no two entries have the same URI, and the URI of
\* every entry of every page's raw output is the URI of exactly one merged entry; the merge
\* adds no URI of its own.
C7_MergedUrisUnique ==
    crawl # <<>> =>
        LET merged == crawl[1].unique_doctors
        IN  /\ \A j, k \in 1..Len(merged) : merged[j].url = merged[k].url => j = k
            /\ \A p \in DOMAIN page_tasks :
                  \A e \in 1..Len(page_tasks[p].ret[1]) :
                      Cardinality({j \in 1..Len(merged) :
                                      merged[j].url = page_tasks[p].ret[1][e].url}) = 1
            /\ \A j \in 1..Len(merged) :
                  \E p \in DOMAIN page_tasks : \E e \in 1..Len(page_tasks[p].ret[1]) :
                      page_tasks[p].ret[1][e].url = merged[j].url

\* C7 witness: two pages returned entries with the same URI (their hrefs differ in the query
\* string only) and the merged output has one entry for it.
C7_Witness ==
    /\ crawl # <<>>
    /\ page_tasks[1].ret[1] # <<>> /\ page_tasks[2].ret[1] # <<>>
    /\ page_tasks[1].ret[1][1].url = page_tasks[2].ret[1][1].url
    /\ page_tasks[1].ret[1][1].name # page_tasks[2].ret[1][1].name
    /\ Len(crawl[1].all_doctors) = 3
    /\ Len(crawl[1].unique_doctors) = 2
    /\ crawl[1].unique_doctors[1] = page_tasks[2].ret[1][1]

(***************************************************************************)
(* The matching predicate, stated on the normalized strings themselves     *)
(***************************************************************************)
\* s[a..b] is a whitespace-separated token of s: a maximal run of non-whitespace characters.
TokenAt(s, a, b) ==
    /\ a <= b
    /\ \A k \in a..b : s[k] \notin Whitespace
    /\ a = 1 \/ s[a - 1] \in Whitespace
    /\ b = Len(s) \/ s[b + 1] \in Whitespace

\* sub occurs in s as a run of consecutive characters.
OccursIn(sub, s) ==
    \E j \in 1..(Len(s) - Len(sub) + 1) : SubSeq(s, j, j + Len(sub) - 1) = sub

\* Every whitespace-separated token of target_norm occurs in doctor_norm.
EveryTokenOccurs(target_norm, doctor_norm) ==
    \A a, b \in 1..Len(target_norm) :
        TokenAt(target_norm, a, b) => OccursIn(SubSeq(target_norm, a, b), doctor_norm)

(***************************************************************************)
(* Properties of the matcher (specification SpecMatch)                     *)
(***************************************************************************)

\* C8: for every target name and every candidate name, the matcher (of the scraper and of
\* the reference script, each with its own normalization) accepts the candidate if and only
\* if every whitespace-separated token of the normalized target occurs as a substring of the
\* normalized candidate, wherever in the candidate and in whatever order.
C8_AcceptsIffEveryTokenOccurs ==
    (fn.op = "find" /\ fn.done) =>
        \A k \in 1..Len(fn.doctors) :
            /\ fn.accepts[k] <=>
                  EveryTokenOccurs(_normalize_name(fn.target),
                                   _normalize_name(fn.doctors[k].name))
            /\ fn.ref_accepts[k] <=>
                  EveryTokenOccurs(normalize_name(fn.target),
                                   normalize_name(fn.doctors[k].name))

\* C8 witness: the target 'Johnson Sara' was matched against 'Sarah K. Johnson', whose
\* tokens come in the other order, and against 'Sara Williams': the first is accepted by
\* both matchers, the second by neither.
C8_Witness ==
    /\ fn.op = "find" /\ fn.done
    /\ fn.target = JohnsonSara
    /\ Len(fn.doctors) = 2
    /\ fn.doctors[1].name = SarahKJohnson /\ fn.doctors[2].name = SaraWilliams
    /\ fn.accepts = <<TRUE, FALSE>>
    /\ fn.ref_accepts = <<TRUE, FALSE>>

\* C9: for every candidate list, the matcher returns None exactly when no candidate
\* satisfies the predicate, and otherwise the candidate at the least position of the list
\* (crawl order) that satisfies it.
C9_FirstMatchOrNone ==
    (fn.op = "find" /\ fn.done) =>
        LET passing == {k \in 1..Len(fn.doctors) :
                            EveryTokenOccurs(_normalize_name(fn.target),
                                             _normalize_name(fn.doctors[k].name))}
        IN  /\ (fn.found = <<>>) <=> (passing = {})
            /\ passing # {} =>
                  \E k \in passing :
                      /\ \A j \in passing : k <= j
                      /\ fn.found = <<fn.doctors[k]>>

\* C9 witness: two different candidates satisfy the predicate and the first one of the list
\* is returned.
C9_Witness ==
    /\ fn.op = "find" /\ fn.done
    /\ Len(fn.doctors) = 2
    /\ fn.doctors[1] # fn.doctors[2]
    /\ fn.accepts = <<TRUE, TRUE>>
    /\ fn.found = <<fn.doctors[1]>>

\* C13: with the alias rule, a target written 'Dr. Sara Johnson' or 'Sarah Johnson' (tokens
\* sara, johnson) matches a candidate named 'Sarah K. Johnson' or 'Sara K. Johnson' and
\* never one named 'Sara Williams': the result does not depend on which of 'Sarah' and 'Sara'
\* the target or the candidate is written with.
C13_AliasMatch ==
    (fn.op = "find" /\ fn.done /\ fn.target \in {DrSaraJohnson, SarahJohnson}) =>
        /\ \A k \in 1..Len(fn.doctors) :
              /\ fn.doctors[k].name \in {SarahKJohnson, SaraKJohnson} => fn.accepts[k]
              /\ fn.doctors[k].name = SaraWilliams => ~fn.accepts[k]
        /\ (\A k \in 1..Len(fn.doctors) : fn.doctors[k].name = SaraWilliams) => fn.found = <<>>
        /\ (fn.doctors # <<>> /\ fn.doctors[1].name \in {SarahKJohnson, SaraKJohnson}) =>
              fn.found = <<fn.doctors[1]>>

\* C13 witness: the target 'Sarah Johnson' was matched against 'Sara Williams' and
\* 'Sara K. Johnson', in this order: the first is rejected and the second is returned.
C13_Witness ==
    /\ fn.op = "find" /\ fn.done
    /\ fn.target = SarahJohnson
    /\ Len(fn.doctors) = 2
    /\ fn.doctors[1].name = SaraWilliams /\ fn.doctors[2].name = SaraKJohnson
    /\ fn.accepts = <<FALSE, TRUE>>
    /\ fn.found = <<fn.doctors[2]>>

(***************************************************************************)
(* The unmatched target (specification Spec)                               *)
(***************************************************************************)
\* The run is loading the profile page or verifying its items.
ProfilePhase ==
    pc \in {"profile_goto", "profile_idle", "profile_fallback", "profile_settle",
            "profile_content", "gather_probes", "overview_return"}

\* The names of the entries a crawl may return, and for every target name of a run and every
\* such name whether it passes the predicate, tabulated.
ListedNames == {SarahKJohnson, SaraWilliams}
PassesPredicate ==
    [t \in TargetNames |->
        [n \in ListedNames |-> EveryTokenOccurs(_normalize_name(t), _normalize_name(n))]]

\* C10 as stated: once a crawl result of the run had no candidate that passes the predicate
\* (the loop went on to a later state), no profile page is fetched in that run.
C10_Original ==
    [][state_idx > 1 => ~(pc = "profile_goto" /\ pc' # "profile_goto")]_vars

\* C10 amended: if no candidate of any crawl result of the run passes the predicate (one
\* crawl when a state is given, otherwise one crawl per state of the default list, each crawl
\* without a match being followed by the crawl of the next state), then no profile page is
\* fetched, no probe is created, no probe tab is opened and the record is returned as it was
\* initialised.  Stated the other way round: a profile is loaded, a probe exists or the
\* record is updated only for a doctor_found that passes the predicate, and a run that ends
\* with doctor_found None has crawled every state of its list and returns the initial record.
C10_NoMatchInAnyCrawlNoProfile ==
    /\ (\/ ProfilePhase
        \/ probe_tasks # <<>>
        \/ \E t \in DOMAIN tabs : t[1] = "probe"
        \/ webmd_data # InitialWebmdData) =>
          /\ doctor_found # <<>>
          /\ doctor_found[1].name \in ListedNames
          /\ PassesPredicate[name][doctor_found[1].name]
    /\ (doctor_found = <<>> /\ pc = "close_browser") => state_idx > Len(states_to_search)
    /\ (doctor_found = <<>> /\ pc = "done" /\ browser = "closed") =>
          /\ state_idx > Len(states_to_search)
          /\ webmd_data = InitialWebmdData

\* C10 witness: no state was given, none of the five crawls had a match, and the run has
\* ended with the browser closed and the initial record.
C10_Witness ==
    /\ pc = "done" /\ browser = "closed"
    /\ state = <<>>
    /\ Len(states_to_search) = 5 /\ state_idx = 6
    /\ doctor_found = <<>>
    /\ probe_tasks = <<>>
    /\ webmd_data = InitialWebmdData

(***************************************************************************)
(* Function-level specification of name normalization: the initial states  *)
(* draw a name, the action applies _normalize_name and normalize_name once *)
(* and to their own result.                                                *)
(***************************************************************************)
\* the longest name drawn from NameAlphabet
MaxNameLen == 3

Andrew == <<"A","n","d","r","e","w">>
AndrewDoddMD == <<"D","r","."," ","A","n","d","r","e","w"," ","D","o","d","d",","," ","M","D">>
Sarahh == <<"S","a","r","a","h","h">>
DRSmith == <<"D",".","R","."," ","S","m","i","t","h">>
Dodo == <<"D","o","d","o">>

\* Names with letters beyond ASCII: capitals to lower, and letters next to a degree token.
JOSEMD == <<"J","O","S","É"," ","M","D">>
MdE == <<"m","d","é">>
EDo == <<"é","d","o">>
OrdinalMd == <<"ª","m","d">>
DdsSquared == <<"d","d","s","²">>

NameAlphabet == {"d", "r", "m", ".", " "}
NormNames ==
    SeqsUpTo(NameAlphabet, MaxNameLen)
        \cup {Andrew, AndrewDoddMD, Sarahh, Dodo, DRSmith, DrSaraJohnson, SarahKJohnson, SaraWilliams,
              DrSaraJohnsonsMD, JohnsonCommaSara, DrOnly,
              JOSEMD, MdE, EDo, OrdinalMd, DdsSquared}

InitNorm ==
    /\ IdleRun
    /\ \E x \in NormNames :
          fn = [op |-> "normalize", x |-> x, done |-> FALSE, once |-> <<>>, twice |-> <<>>,
                ref_once |-> <<>>, ref_twice |-> <<>>]

ApplyNormalize ==
    /\ fn.op = "normalize"
    /\ ~fn.done
    /\ fn' = [fn EXCEPT
          !.done = TRUE,
          !.once = _normalize_name(fn.x),
          !.twice = _normalize_name(_normalize_name(fn.x)),
          !.ref_once = normalize_name(fn.x),
          !.ref_twice = normalize_name(normalize_name(fn.x))]
    /\ UNCHANGED runVars

NextNorm == ApplyNormalize

SpecNorm == InitNorm /\ [][NextNorm]_vars

(***************************************************************************)
(* Properties of name normalization (specification SpecNorm)               *)
(***************************************************************************)

\* C11: name normalization is idempotent: for every name x, normalizing the normalized name
\* gives the normalized name again, for the scraper's function and for the reference one.
C11_Idempotent ==
    (fn.op = "normalize" /\ fn.done) =>
        /\ fn.twice = fn.once
        /\ fn.ref_twice = fn.ref_once

\* x is one word of letters.
IsLetterWord(x) ==
    /\ x # <<>>
    /\ \A k \in 1..Len(x) : \E i \in 1..26 : x[k] \in {LowerLetters[i], UpperLetters[i]}

\* C12: honorific and degree tokens are removed as whole words only: a name that is one word
\* of letters, is none of dr, md, do, phd, dds and does not hold the alias 'sarah', comes
\* out of the normalization as its lowercase form, whatever letters it has inside.
C12_WholeWordsOnly ==
    (/\ fn.op = "normalize" /\ fn.done
     /\ IsLetterWord(fn.x)
     /\ Lower(fn.x) \notin {<<"d","r">>, <<"m","d">>, <<"d","o">>, <<"p","h","d">>,
                            <<"d","d","s">>}
     /\ ~OccursIn(Sarah, Lower(fn.x))) =>
        fn.once = Lower(fn.x)

(***************************************************************************)
(* Specification of one crawl with its matching, lines 632-636 of          *)
(* _scrape_webmd_with_playwright: the listing is an input.  The initial    *)
(* states are the run at the head of the state loop, called with a state   *)
(* (the browser and the main page are open, states_to_search is that       *)
(* state), and draw the target name and the listing page every page number *)
(* shows; the steps are those of the run: the page tasks, one step per     *)
(* await, the barrier with the merge, and the matcher.                     *)
(***************************************************************************)
\* funtion.py:602-623: the run when the state loop is entered
AtStateLoop(target_name) ==
    /\ pc = "loop"
    /\ name = target_name
    /\ state = <<"idaho">>
    /\ states_to_search = <<"idaho">>
    /\ state_idx = 1
    /\ browser = "open"
    /\ tabs = NewPage(<<>>, MAIN, MAIN)
    /\ page_tasks = <<>>
    /\ crawl = <<>>
    /\ doctors = <<>>
    /\ doctor_found = <<>>
    /\ doctor_info = <<>>
    /\ probe_tasks = <<>>
    /\ verified_insurance = <<>>
    /\ webmd_data = InitialWebmdData

InitPipeline ==
    /\ \E target \in TargetNames : AtStateLoop(target)
    /\ \E pages \in [1..MaxPages -> ListingPages] : fn = [op |-> "crawl", pages |-> pages]

NextPipeline ==
    \/ StartCrawl
    \/ \E p \in 1..MaxPages : PageStep(p)
    \/ CrawlMerge
    \/ Match

SpecPipeline == InitPipeline /\ [][NextPipeline]_vars

(***************************************************************************)
(* Properties of the crawl pipeline (specification SpecPipeline)           *)
(***************************************************************************)
\* The listing of C14, read for the target 'Dr. Sara Johnson': page 1 shows 'Sarah K. Johnson'
\* with href '/a?x=1', page 2 the same name with href '/a?x=2', any further page no provider;
\* the crawl has returned and neither page fetch failed.
TwoPagesCrawled ==
    /\ fn.op = "crawl"
    /\ name = DrSaraJohnson
    /\ fn.pages[1] = <<AnchorJohnson1>>
    /\ fn.pages[2] = <<AnchorJohnson2>>
    /\ \A p \in 3..MaxPages : fn.pages[p] = <<>>
    /\ pc = "crawl_return"
    /\ ~page_tasks[1].raised /\ ~page_tasks[2].raised

\* C14: for the target 'Dr. Sara Johnson' and a listing whose page 1 yields 'Sarah K. Johnson'
\* with href '/a?x=1' and whose page 2 yields the same name with href '/a?x=2' (any further
\* page showing no provider), under every interleaving of the page tasks both entries get the
\* same URI, the one of '/a' without its query string, the merged output of the crawl has
\* exactly one entry, and the matcher, run on that output, returns this entry.
C14_TwoPagesOneEntry ==
    /\ [](TwoPagesCrawled =>
            /\ Len(crawl[1].page_results[1]) = 1 /\ Len(crawl[1].page_results[2]) = 1
            /\ crawl[1].page_results[1][1].url = HOST \o <<"/", "a">>
            /\ crawl[1].page_results[2][1].url = HOST \o <<"/", "a">>
            /\ Len(crawl[1].all_doctors) = 2
            /\ crawl[1].unique_doctors =
                   << [name |-> SarahKJohnson, url |-> HOST \o <<"/", "a">>] >>
            /\ doctors = crawl[1].unique_doctors)
    /\ [][TwoPagesCrawled =>
            /\ doctor_found' = <<doctors[1]>>
            /\ pc' = "profile_goto"]_vars

\* C14 witness: both page tasks have returned their entry for that listing and that target,
\* the merge has kept one of the two entries, and it is the entry the matcher takes.
C14_Witness ==
    /\ TwoPagesCrawled
    /\ Len(crawl[1].all_doctors) = 2
    /\ Len(doctors) = 1
    /\ doctors[1].name = SarahKJohnson

(***************************************************************************)
(* Specification of the classification, funtion.py:1053-1096: the result   *)
(* page is an input.  The initial states are the run with every probe at   *)
(* the first count() of the verification elements (its tab is open, its    *)
(* search is done) and draw the page state the probes read: the texts of   *)
(* the div.verify-text elements and the page's content.  The steps are the *)
(* awaits of the classification of every probe (the first count, the       *)
(* second count, whose value is the environment's, text_content() of one   *)
(* element at a time, content()) and the close of its tab.                 *)
(***************************************************************************)
\* funtion.py:1053: the run when every probe has done its search and starts to classify
AtClassification ==
    /\ pc = "gather_probes"
    /\ name = DrSaraJohnson
    /\ state = <<"idaho">>
    /\ states_to_search = <<"idaho">>
    /\ state_idx = 0
    /\ browser = "open"
    /\ tabs = [t \in {MAIN} \cup {ProbeTask(i) : i \in 1..Len(insurance_plans_to_check)} |->
                  [owner |-> t, state |-> "open", closes |-> 0, lastActor |-> t]]
    /\ page_tasks = <<>>
    /\ crawl = <<>>
    /\ doctors = <<>>
    /\ doctor_found = << [name |-> SarahKJohnson, url |-> HOST \o <<"/", "a">>] >>
    /\ doctor_info = << [insurance_accepted |-> <<>>] >>
    /\ probe_tasks = [i \in 1..Len(insurance_plans_to_check) |->
                         [NewProbeTask(doctor_found[1].url, insurance_plans_to_check[i])
                             EXCEPT !.pc = "count", !.new_page = <<ProbeTask(i)>>]]
    /\ verified_insurance = <<>>
    /\ webmd_data = InitialWebmdData

InitClassify ==
    /\ AtClassification
    /\ \E pg \in ClassifyPages : fn = [op |-> "classify", page |-> pg]

\* The classification of probe i and the end of its coroutine.
ClassifyStep(i) ==
    \/ ProbeCount(i) \/ ProbeCountAgain(i) \/ ProbeTextContent(i) \/ ProbeContent(i)
    \/ ProbeClose(i)

NextClassify == \E i \in 1..Len(insurance_plans_to_check) : ClassifyStep(i)

SpecClassify == InitClassify /\ [][NextClassify]_vars

(***************************************************************************)
(* Properties of the classification (specification SpecClassify)           *)
(***************************************************************************)
\* lit occurs in s at index i.
LitAt(s, i, lit) == i + Len(lit) - 1 <= Len(s) /\ SubSeq(s, i, i + Len(lit) - 1) = lit

\* No line break in s from index i to index j.
SameLine(s, i, j) == \A k \in i..j : s[k] # "\n"

\* The regular expression a.*b is found in s: a, then b after it on the same line.
InOrder2(s, a, b) ==
    \E i \in 1..Len(s) :
        /\ LitAt(s, i, a)
        /\ \E j \in (i + Len(a))..Len(s) : LitAt(s, j, b) /\ SameLine(s, i, j)

\* The regular expression a.*b.*c is found in s.
InOrder3(s, a, b, c) ==
    \E i \in 1..Len(s) :
        /\ LitAt(s, i, a)
        /\ \E j \in (i + Len(a))..Len(s) :
              /\ LitAt(s, j, b)
              /\ \E k \in (j + Len(b))..Len(s) : LitAt(s, k, c) /\ SameLine(s, i, k)

\* (a) some verification element has a text that contains "accepts" and the name, whatever
\* the case of the letters.
VerificationElementNamesIt(pg, n) ==
    \E i \in 1..Len(pg.verify_texts) :
        /\ pg.verify_texts[i] # <<>>
        /\ OccursIn(Accepts, Lower(pg.verify_texts[i][1]))
        /\ OccursIn(Lower(n), Lower(pg.verify_texts[i][1]))

\* (b) the lowercased page text matches dr.*accepts.*n, accepts.*n, n.*accepted or
\* n.*participating, n being the lowercased name.
PageTextMatchesAcceptance(pg, n) ==
    LET text == Lower(pg.content)
        nm == Lower(n)
    IN  \/ InOrder3(text, Dr, Accepts, nm)
        \/ InOrder2(text, Accepts, nm)
        \/ InOrder2(text, nm, Accepted)
        \/ InOrder2(text, nm, Participating)

\* The lowercased page text matches "we cannot verify", "cannot verify", "not verified" or
\* contact.*provider.*to confirm.
PageTextMatchesRejection(pg) ==
    LET text == Lower(pg.content)
    IN  \/ OccursIn(WeCannotVerify, text)
        \/ OccursIn(CannotVerify, text)
        \/ OccursIn(NotVerified, text)
        \/ InOrder3(text, Contact, Provider, ToConfirm)

\* Probe i leaves the classification by one of its return statements in this step.
ClassificationReturns(i) ==
    /\ fn.op = "classify"
    /\ probe_tasks[i].pc \in {"text_content", "content"}
    /\ probe_tasks'[i].pc = "finally"
    /\ probe_tasks'[i].exit # "exception"

\* The page state the classification of task t has read when it returns: the page, with the
\* verification elements the loop went over when the second count was not the number of
\* elements of the page and no element accepted.
PageRead(t) ==
    IF t.pc = "content" /\ t.count # Len(t.page[1].verify_texts)
    THEN [verify_texts |-> SubSeq(t.page[1].verify_texts, 1, t.count),
          content |-> t.page[1].content]
    ELSE t.page[1]

\* C15: a classification that returns on a page state that meets an acceptance condition for
\* the name and matches a rejection pattern returns accepted; and the rejection patterns are
\* consulted (the exits rejected and unknown) only in the step that reads the content, after
\* the loop over the verification elements, and only when no verification element named the
\* insurance and no acceptance pattern matched.
C15_AcceptanceBeforeRejection ==
    [][\A i \in 1..Len(insurance_plans_to_check) :
          ClassificationReturns(i) =>
              LET pg == PageRead(probe_tasks[i])
                  n == probe_tasks[i].insurance_name
              IN  /\ ((VerificationElementNamesIt(pg, n) \/ PageTextMatchesAcceptance(pg, n))
                      /\ PageTextMatchesRejection(pg)) => probe_tasks'[i].exit = "accepted"
                  /\ probe_tasks'[i].exit \in {"rejected", "unknown"} =>
                        /\ probe_tasks[i].pc = "content"
                        /\ ~VerificationElementNamesIt(pg, n)
                        /\ ~PageTextMatchesAcceptance(pg, n)]_vars

\* C15 witness: the probe of Aetna has returned accepted on a page with a verification element
\* naming Aetna and a page text that matches a rejection pattern but no acceptance pattern.
C15_Witness ==
    /\ fn.op = "classify"
    /\ fn.page.verify_texts = << <<TextJaneAccepts>> >>
    /\ fn.page.content = TextCannotVerify
    /\ probe_tasks[1].insurance_name = Aetna
    /\ probe_tasks[1].pc = "finally"
    /\ probe_tasks[1].exit = "accepted"

\* C16: the page text 'we cannot verify this provider accepts aetna', with no verification
\* element, is classified not accepted for the name 'Aetna'.
C16_RejectionSentenceNotAccepted ==
    (/\ fn.op = "classify"
     /\ fn.page.verify_texts = <<>>
     /\ fn.page.content = TextCannotVerifyAetna
     /\ probe_tasks[1].insurance_name = Aetna
     /\ probe_tasks[1].exit \notin {"", "exception"}) =>
        /\ probe_tasks[1].exit \in {"rejected", "unknown"}
        /\ probe_tasks[1].result = FALSE

\* C17: for every page state and every name, the classification, when it returns, yields
\* accepted exactly when (a) a verification element of the page names the insurance after
\* "accepts" or before it, or (b) the lowercased page text matches an acceptance pattern;
\* otherwise it yields not accepted, as rejected when a rejection pattern matches and as
\* unknown when none does.
C17_AcceptedIffAcceptanceCondition ==
    [][\A i \in 1..Len(insurance_plans_to_check) :
          ClassificationReturns(i) =>
              LET pg == PageRead(probe_tasks[i])
                  n == probe_tasks[i].insurance_name
                  r == probe_tasks'[i]
              IN  /\ r.result = (VerificationElementNamesIt(pg, n)
                                   \/ PageTextMatchesAcceptance(pg, n))
                  /\ r.result = (r.exit = "accepted")
                  /\ ~r.result =>
                        r.exit = (IF PageTextMatchesRejection(pg) THEN "rejected"
                                  ELSE "unknown")]_vars

\* C17 witness: the probe of Aetna has returned unknown, hence not accepted, on a page whose
\* only verification element accepts another insurance and whose text matches no pattern.
C17_Witness ==
    /\ fn.op = "classify"
    /\ fn.page.verify_texts = << <<TextAcceptsCigna>> >>
    /\ fn.page.content = TextPlain
    /\ probe_tasks[1].insurance_name = Aetna
    /\ probe_tasks[1].pc = "finally"
    /\ probe_tasks[1].exit = "unknown" /\ probe_tasks[1].result = FALSE

(***************************************************************************)
(* Properties of the steps of a probe (specification Spec)                 *)
(***************************************************************************)
\* The step of a probe a position belongs to, in the order of the steps: Open, Stabilize,
\* Locate section, Locate input, Submit, Await result, Classify, Close, and finished.
StepOf(at) ==
    CASE at \in {"new_page", "goto"} -> 1
      [] at \in {"networkidle", "fallback_wait"} -> 2
      [] at \in {"scroll_top", "scroll_top_wait", "scroll", "scroll_wait", "scroll_visible"} -> 3
      [] at \in {"input_primary", "input_fallback"} -> 4
      [] at \in {"click", "click_wait", "fill", "fill_wait", "type", "type_wait", "apply",
                 "apply_click", "press_enter"} -> 5
      [] at \in {"wait_results", "networkidle2", "fallback_wait2"} -> 6
      [] at \in {"count", "count_again", "text_content", "content"} -> 7
      [] at = "finally" -> 8
      [] at = "done" -> 9

\* Probe i exists before and after the step and has moved to another position.
ProbeMoved(i) ==
    /\ i \in DOMAIN probe_tasks
    /\ i \in DOMAIN probe_tasks'
    /\ probe_tasks'[i].pc # probe_tasks[i].pc

\* C18: the probes are created once per verified profile, one per checklist item in checklist
\* order, and are not created again; a probe moves from a step only within that step, to the
\* next step of the order Open, Stabilize, Locate section, Locate input, Submit, Await result,
\* Classify, Close, or to Close (before any tab was opened: to its end); it enters Submit only
\* with a located input, Await result only with the search triggered, Classify only from Await
\* result; a probe that opened a tab ends only through Close, and nothing follows its end.
C18_ProbeStepOrder ==
    [][/\ (probe_tasks = <<>> /\ probe_tasks' # <<>>) =>
             /\ pc = "profile_content"
             /\ doctor_info = <<>>
             /\ Len(probe_tasks') = Len(insurance_plans_to_check)
             /\ \A i \in 1..Len(probe_tasks') :
                   /\ probe_tasks'[i].insurance_name = insurance_plans_to_check[i]
                   /\ probe_tasks'[i].url = doctor_found[1].url
                   /\ probe_tasks'[i].pc = "new_page"
       /\ (probe_tasks # <<>> /\ probe_tasks' # probe_tasks) =>
             \/ probe_tasks' = <<>> /\ \A i \in 1..Len(probe_tasks) : probe_tasks[i].pc = "done"
             \/ /\ Len(probe_tasks') = Len(probe_tasks)
                /\ \A i \in 1..Len(probe_tasks) :
                      /\ probe_tasks'[i].insurance_name = probe_tasks[i].insurance_name
                      /\ probe_tasks'[i].url = probe_tasks[i].url
       /\ \A i \in 1..Len(insurance_plans_to_check) :
             ProbeMoved(i) =>
                LET a == probe_tasks[i].pc
                    b == probe_tasks'[i].pc
                IN  /\ a # "done"
                    /\ \/ StepOf(b) \in {StepOf(a), StepOf(a) + 1}
                       \/ b = "finally" /\ probe_tasks[i].new_page # <<>>
                       \/ a = "new_page" /\ b = "done" /\ probe_tasks'[i].new_page = <<>>
                    /\ (StepOf(b) = 5 /\ StepOf(a) # 5) =>
                          probe_tasks'[i].search_input \in {"xpath", "css"}
                    /\ (StepOf(b) = 6 /\ StepOf(a) # 6) =>
                          /\ probe_tasks[i].input_ops = <<"click", "fill", "type">>
                          /\ probe_tasks'[i].submitted \in {"button", "enter"}
                    /\ (StepOf(b) = 7 /\ StepOf(a) # 7) =>
                          a \in {"networkidle2", "fallback_wait2"}
                    /\ probe_tasks[i].exit \in {"accepted", "rejected", "unknown"} => a = "finally"
                    /\ (b = "done" /\ probe_tasks[i].new_page # <<>>) => a = "finally"
      ]_vars

\* C18 witness: the probes of a profile have all ended, the first after its classification
\* found the insurance accepted and the second at Locate input.
C18_Witness ==
    /\ pc = "overview_return"
    /\ Len(probe_tasks) >= 2
    /\ probe_tasks[1].pc = "done" /\ probe_tasks[1].exit = "accepted"
    /\ probe_tasks[2].pc = "done" /\ probe_tasks[2].exit = "no_input"

\* C19: a probe leaves the wait for network idle only for the scroll or for the fallback wait
\* of the timeout, never for its end; it leaves the fallback wait, the scroll call and the wait
\* of a scroll step for the next position unless an exception of that call was raised; the
\* test of the heading never ends the probe: it leads to the next scroll step or to the primary
\* input locator, and after the last step to the locator whether the heading was seen or not.
C19_TimeoutAndHeadingNotFatal ==
    [][\A i \in 1..Len(insurance_plans_to_check) :
          ProbeMoved(i) =>
             LET a == probe_tasks[i].pc
                 b == probe_tasks'[i].pc
                 e == probe_tasks'[i].exit
             IN  /\ a = "networkidle" => b \in {"scroll_top", "fallback_wait"} /\ e = ""
                 /\ a = "fallback_wait" => (b = "scroll_top" /\ e = "") \/ e = "exception"
                 /\ a = "scroll" => (b = "scroll_wait" /\ e = "") \/ e = "exception"
                 /\ a = "scroll_wait" => (b = "scroll_visible" /\ e = "") \/ e = "exception"
                 /\ a = "scroll_visible" =>
                       /\ e = ""
                       /\ \/ b = "input_primary" /\ probe_tasks'[i].insurance_section_found
                          \/ /\ b = "input_primary"
                             /\ probe_tasks[i].scroll_step = SectionScrollSteps
                          \/ /\ b = "scroll"
                             /\ probe_tasks[i].scroll_step < SectionScrollSteps
                             /\ probe_tasks'[i].scroll_step = probe_tasks[i].scroll_step + 1
      ]_vars

\* C19 witness: one probe is in the fallback wait after the timeout of its stabilization and
\* another is at the primary input locator after a scroll that never showed the heading.
C19_Witness ==
    /\ pc = "gather_probes"
    /\ Len(probe_tasks) >= 2
    /\ probe_tasks[1].pc = "fallback_wait" /\ probe_tasks[1].exit = ""
    /\ probe_tasks[2].pc = "input_primary" /\ ~probe_tasks[2].insurance_section_found

\* C20: the fallback locator is reached only from the primary locator, when that one failed;
\* a locator that succeeds leads to the click on the input it located; when both fail the
\* probe returns False (exit no_input) through the finally block and no exception is raised.
C20_InputLocators ==
    [][\A i \in 1..Len(insurance_plans_to_check) :
          ProbeMoved(i) =>
             LET a == probe_tasks[i].pc
                 b == probe_tasks'[i].pc
                 t == probe_tasks'[i]
             IN  /\ b = "input_fallback" => a = "input_primary" /\ t.search_input = ""
                 /\ a = "input_primary" =>
                       \/ b = "click" /\ t.search_input = "xpath"
                       \/ b = "input_fallback"
                 /\ a = "input_fallback" =>
                       \/ b = "click" /\ t.search_input = "css"
                       \/ b = "finally" /\ t.exit = "no_input" /\ t.result = FALSE
                 /\ b = "click" => a \in {"input_primary", "input_fallback"}
                 /\ (a = "finally" /\ probe_tasks[i].exit = "no_input") =>
                       b = "done" /\ t.ret = <<FALSE>>
      ]_vars

\* C20 witness: one probe whose two locators failed has returned False and another clicks on
\* the input its fallback locator found.
C20_Witness ==
    /\ pc = "gather_probes"
    /\ Len(probe_tasks) >= 2
    /\ probe_tasks[1].pc = "done" /\ probe_tasks[1].exit = "no_input"
    /\ probe_tasks[1].ret = <<FALSE>>
    /\ probe_tasks[2].pc = "fill" /\ probe_tasks[2].search_input = "css"
    /\ probe_tasks[2].input_ops = <<"click">>

\* C21: the input is clicked, cleared and typed into, in this order and each followed by its
\* wait, before the apply button is tried; the Enter key is pressed only after the apply button failed; a search triggered
\* by either leads to the wait for the results, and when both fail the probe returns False
\* (exit no_search) through the finally block.
C21_SubmitPaths ==
    [][\A i \in 1..Len(insurance_plans_to_check) :
          ProbeMoved(i) =>
             LET a == probe_tasks[i].pc
                 b == probe_tasks'[i].pc
                 t == probe_tasks'[i]
             IN  /\ a = "click" =>
                       (b = "click_wait" /\ t.input_ops = <<"click">>) \/ t.exit = "exception"
                 /\ a = "click_wait" =>
                       (b = "fill" /\ t.input_ops = <<"click">>) \/ t.exit = "exception"
                 /\ a = "fill" =>
                       (b = "fill_wait" /\ t.input_ops = <<"click", "fill">>)
                          \/ t.exit = "exception"
                 /\ a = "fill_wait" =>
                       (b = "type" /\ t.input_ops = <<"click", "fill">>) \/ t.exit = "exception"
                 /\ a = "type" =>
                       \/ b = "type_wait" /\ t.input_ops = <<"click", "fill", "type">>
                       \/ t.exit = "exception"
                 /\ a = "type_wait" =>
                       \/ b = "apply" /\ t.input_ops = <<"click", "fill", "type">>
                       \/ t.exit = "exception"
                 /\ b = "apply" => a = "type_wait"
                 /\ b = "apply_click" => a = "apply"
                 /\ b = "press_enter" => a \in {"apply", "apply_click"} /\ t.submitted = ""
                 /\ a = "apply" => b \in {"apply_click", "press_enter"}
                 /\ a = "apply_click" =>
                       \/ b = "wait_results" /\ t.submitted = "button"
                       \/ b = "press_enter"
                 /\ a = "press_enter" =>
                       \/ b = "wait_results" /\ t.submitted = "enter"
                       \/ b = "finally" /\ t.exit = "no_search" /\ t.result = FALSE
                 /\ b = "wait_results" => a \in {"apply_click", "press_enter"}
                 /\ (a = "finally" /\ probe_tasks[i].exit = "no_search") =>
                       b = "done" /\ t.ret = <<FALSE>>
      ]_vars

\* C21 witness: one probe whose apply button and Enter key both failed has returned False and
\* another waits for the results of a search its Enter key triggered.
C21_Witness ==
    /\ pc = "gather_probes"
    /\ Len(probe_tasks) >= 2
    /\ probe_tasks[1].pc = "done" /\ probe_tasks[1].exit = "no_search"
    /\ probe_tasks[1].ret = <<FALSE>>
    /\ probe_tasks[2].pc = "wait_results" /\ probe_tasks[2].submitted = "enter"

\* C22: a probe that has finished has returned a boolean, and has returned False whenever it
\* did not classify the page as accepted: after an exception of any step (opening the tab and
\* the navigation included), after an early return and after a rejected or unknown page.
C22_ProbeFailureReturnsFalse ==
    \A i \in 1..Len(probe_tasks) :
        probe_tasks[i].pc = "done" =>
            /\ probe_tasks[i].ret \in {<<TRUE>>, <<FALSE>>}
            /\ probe_tasks[i].exit \in {"exception", "no_input", "no_search", "rejected",
                                        "unknown", "accepted"}
            /\ probe_tasks[i].exit # "accepted" => probe_tasks[i].ret = <<FALSE>>
            /\ GatherResults(probe_tasks, TRUE)[i] = (probe_tasks[i].exit = "accepted")

\* C22 witness: a probe that could not open its tab and a probe that failed with its tab open
\* have both returned False.
C22_Witness ==
    /\ pc = "gather_probes"
    /\ Len(probe_tasks) >= 2
    /\ probe_tasks[1].pc = "done" /\ probe_tasks[1].exit = "exception"
    /\ probe_tasks[1].new_page = <<>> /\ probe_tasks[1].ret = <<FALSE>>
    /\ probe_tasks[2].pc = "done" /\ probe_tasks[2].exit = "exception"
    /\ probe_tasks[2].new_page # <<>> /\ probe_tasks[2].ret = <<FALSE>>

\* C23: a page fetch that has finished has returned a list, the empty one when an exception
\* was raised in it (opening the tab included); the coordinator then merges what the pages
\* returned, with nothing from such a page.
C23_PageFailureReturnsEmpty ==
    /\ \A p \in 1..Len(page_tasks) :
          page_tasks[p].pc = "done" =>
              /\ Len(page_tasks[p].ret) = 1
              /\ page_tasks[p].raised => page_tasks[p].ret[1] = <<>>
    /\ (pc = "crawl_return" /\ crawl # <<>>) =>
          /\ Len(crawl[1].page_results) = Len(page_tasks)
          /\ \A p \in 1..Len(page_tasks) :
                page_tasks[p].raised => crawl[1].page_results[p] = <<>>

\* C23 witness: a crawl has merged its pages after the first page could not open its tab and
\* the second page, whose tab was open, raised; neither contributed an entry.
C23_Witness ==
    /\ pc = "crawl_return" /\ crawl # <<>>
    /\ Len(page_tasks) >= 2
    /\ page_tasks[1].raised /\ page_tasks[1].new_page = <<>> /\ page_tasks[1].ret = << <<>> >>
    /\ page_tasks[2].raised /\ page_tasks[2].new_page # <<>> /\ page_tasks[2].ret = << <<>> >>
    /\ crawl[1].page_results[1] = <<>> /\ crawl[1].page_results[2] = <<>>

(***************************************************************************)
(* get_doctor_details, funtion.py:46-157: the source lookups in order.     *)
(* fn holds the position, the address argument and the locals npi_data,    *)
(* google_data, healthgrades_data, webmd_data, best_address and            *)
(* doctor_info; {} and None are <<>>, a value v is <<v>>.  A lookup        *)
(* returns what its code can return: {} (or its default record) after an   *)
(* exception, a timeout or a status other than 200, data otherwise.        *)
(***************************************************************************)
\* The specialty arguments of the runs: one of the table below whatever its case, one whose
\* entry of the table is not what the replacements give, one that is not in the table, and
\* the empty string.
Cardiology == <<"C","a","r","d","i","o","l","o","g","y">>
ObstetricsAndGynecology == <<"O","b","s","t","e","t","r","i","c","s"," ","a","n","d"," ","G","y","n","e","c","o","l","o","g","y">>
SleepAndPain == <<"S","l","e","e","p"," ","&"," ","P","a","i","n">>
Specialties == {Cardiology, ObstetricsAndGynecology, SleepAndPain, <<>>}

FamilyMedicine == <<"f","a","m","i","l","y","-","m","e","d","i","c","i","n","e">>

\* funtion.py:530-550: the pairs (key, value) of the dictionary
specialty_mapping ==
    << <<<<"f","a","m","i","l","y"," ","m","e","d","i","c","i","n","e">>,
         <<"f","a","m","i","l","y","-","m","e","d","i","c","i","n","e">>>>,
       <<<<"i","n","t","e","r","n","a","l"," ","m","e","d","i","c","i","n","e">>,
         <<"i","n","t","e","r","n","a","l","-","m","e","d","i","c","i","n","e">>>>,
       <<<<"p","e","d","i","a","t","r","i","c","s">>,
         <<"p","e","d","i","a","t","r","i","c","s">>>>,
       <<<<"c","a","r","d","i","o","l","o","g","y">>,
         <<"c","a","r","d","i","o","l","o","g","y">>>>,
       <<<<"d","e","r","m","a","t","o","l","o","g","y">>,
         <<"d","e","r","m","a","t","o","l","o","g","y">>>>,
       <<<<"o","r","t","h","o","p","e","d","i","c"," ","s","u","r","g","e","r","y">>,
         <<"o","r","t","h","o","p","e","d","i","c","-","s","u","r","g","e","r","y">>>>,
       <<<<"n","e","u","r","o","l","o","g","y">>,
         <<"n","e","u","r","o","l","o","g","y">>>>,
       <<<<"p","s","y","c","h","i","a","t","r","y">>,
         <<"p","s","y","c","h","i","a","t","r","y">>>>,
       <<<<"o","b","s","t","e","t","r","i","c","s"," ","a","n","d"," ","g","y","n","e","c","o","l","o","g","y">>,
         <<"o","b","s","t","e","t","r","i","c","s","-","g","y","n","e","c","o","l","o","g","y">>>>,
       <<<<"o","n","c","o","l","o","g","y">>,
         <<"o","n","c","o","l","o","g","y">>>>,
       <<<<"o","p","h","t","h","a","l","m","o","l","o","g","y">>,
         <<"o","p","h","t","h","a","l","m","o","l","o","g","y">>>>,
       <<<<"o","t","o","l","a","r","y","n","g","o","l","o","g","y">>,
         <<"o","t","o","l","a","r","y","n","g","o","l","o","g","y">>>>,
       <<<<"u","r","o","l","o","g","y">>,
         <<"u","r","o","l","o","g","y">>>>,
       <<<<"r","a","d","i","o","l","o","g","y">>,
         <<"r","a","d","i","o","l","o","g","y">>>>,
       <<<<"a","n","e","s","t","h","e","s","i","o","l","o","g","y">>,
         <<"a","n","e","s","t","h","e","s","i","o","l","o","g","y">>>>,
       <<<<"e","m","e","r","g","e","n","c","y"," ","m","e","d","i","c","i","n","e">>,
         <<"e","m","e","r","g","e","n","c","y","-","m","e","d","i","c","i","n","e">>>>,
       <<<<"p","a","t","h","o","l","o","g","y">>,
         <<"p","a","t","h","o","l","o","g","y">>>>,
       <<<<"p","h","y","s","i","c","a","l"," ","m","e","d","i","c","i","n","e"," ","a","n","d"," ","r","e","h","a","b","i","l","i","t","a","t","i","o","n">>,
         <<"p","h","y","s","i","c","a","l","-","m","e","d","i","c","i","n","e","-","r","e","h","a","b","i","l","i","t","a","t","i","o","n">>>>,
       <<<<"p","l","a","s","t","i","c"," ","s","u","r","g","e","r","y">>,
         <<"p","l","a","s","t","i","c","-","s","u","r","g","e","r","y">>>>,
       <<<<"g","e","n","e","r","a","l"," ","s","u","r","g","e","r","y">>,
         <<"g","e","n","e","r","a","l","-","s","u","r","g","e","r","y">>>> >>

\* funtion.py:524-553
_map_specialty_to_webmd(specialty) ==
    IF specialty = <<>> THEN FamilyMedicine
    ELSE LET specialty_lower == Strip(Lower(specialty))
             hits == {k \in 1..Len(specialty_mapping) : specialty_mapping[k][1] = specialty_lower}
         IN  IF hits # {} THEN specialty_mapping[CHOOSE k \in hits : TRUE][2]
             ELSE Replace(Replace(specialty_lower, <<" ">>, <<"-">>), <<"&">>, <<"a","n","d">>)

\* funtion.py:59-71: of doctor_info, the fields the lookups' results are merged into
InitialDoctorInfo ==
    [address |-> <<>>, phone_number |-> <<>>, affiliated_insurance_networks |-> <<>>,
     services_offered |-> <<>>, scraped_sources |-> <<>>]

\* funtion.py:159-235  _search_npi_registry: {} or the response with best_address
NpiReturns ==
    {<<>>, << [best_address |-> <<>>] >>, << [best_address |-> <<"npi address">>] >>}

\* funtion.py:1284-1290: google_info as it is initialized
google_info == [address |-> <<>>, phone_number |-> <<>>]

\* funtion.py:1280-1383  _search_google_places: google_info, as initialized (no key, an
\* exception, a status other than 200, no result) or with formatted_address and
\* formatted_phone_number of the details, each of which the answer has or lacks
GoogleReturns ==
    [address : {<<>>, <<"google address">>}, phone_number : {<<>>, <<"google phone">>}]

\* funtion.py:349-385  _search_healthgrades: {} (an exception, a status other than 200, no
\* card) or what the first provider card gives: a phone or None, an address or None, and the
\* specialty it was called with
HealthgradesReturns(specialty) ==
    {<<>>} \cup
    {<< [phone_number |-> phone, address |-> address, services_offered |-> <<specialty>>] >> :
        phone \in {<<>>, <<"hg phone">>}, address \in {<<>>, <<"hg address">>}}

\* funtion.py:927-947: the insurance lists a verified profile can have
WebmdNetworks ==
    {DedupKeepOrder(passive \o VerifiedLabels(insurance_plans_to_check, r, 1), <<>>) :
        passive \in PassiveInsurance,
        r \in [1..Len(insurance_plans_to_check) -> BOOLEAN]}

\* funtion.py:593-599: webmd_data as _scrape_webmd_with_playwright initializes it
InitialRunData ==
    [affiliated_insurance_networks |-> <<>>, phone_number |-> <<>>, address |-> <<>>,
     services_offered |-> <<>>]

\* funtion.py:387-423, 593-665  _search_webmd: {} (no browser, or an exception) or the
\* webmd_data of the browser run, which got the mapped specialty (401): as initialized (no
\* match, or an exception caught at 661) or updated from the profile at 647-655, where the
\* profile has a phone or not and an address or not
WebmdReturns(specialty) ==
    LET webmd_specialty == _map_specialty_to_webmd(specialty)
    IN  {<<>>, <<InitialRunData>>} \cup
        {<< [affiliated_insurance_networks |-> n, phone_number |-> phone, address |-> address,
             services_offered |-> IF webmd_specialty # <<>> THEN <<webmd_specialty>>
                                  ELSE <<>>] >> :
            n \in WebmdNetworks,
            phone \in {<<>>, <<"webmd phone">>},
            address \in {<<>>, <<"webmd address">>}}

\* What each lookup can return, for every specialty of a run, tabulated.
HealthgradesReturnsOf == [specialty \in Specialties |-> HealthgradesReturns(specialty)]
WebmdReturnsOf == [specialty \in Specialties |-> WebmdReturns(specialty)]

\* list(set(xs)): the distinct elements of xs in the order the set iterates them, which the
\* hashes of the strings decide
ListOfSet(xs) ==
    LET S == {xs[k] : k \in DOMAIN xs}
    IN  {f \in [1..Cardinality(S) -> S] : \A i, j \in 1..Cardinality(S) : i # j => f[i] # f[j]}

InitDetails ==
    /\ IdleRun
    /\ \E specialty \in Specialties, address \in {<<>>, <<"given address">>} :
          fn = [op |-> "details", pc |-> "npi", specialty |-> specialty, address |-> address,
                npi_data |-> <<>>, google_data |-> <<>>, healthgrades_data |-> <<>>,
                webmd_data |-> <<>>, best_address |-> <<>>, doctor_info |-> InitialDoctorInfo]

\* funtion.py:73-79, 82-88  Step 1, and Step 2 when the registry gave an address
DetailsNpi ==
    /\ fn.op = "details" /\ fn.pc = "npi"
    /\ \E npi_data \in NpiReturns :
          LET npi_has_address == npi_data # <<>> /\ npi_data[1].best_address # <<>>
          IN  fn' = [fn EXCEPT
                        !.npi_data = npi_data,
                        !.doctor_info.scraped_sources =
                            IF npi_data # <<>> THEN Append(@, "NPI Registry") ELSE @,
                        !.best_address =
                            IF npi_has_address THEN npi_data[1].best_address ELSE @,
                        !.pc = IF npi_has_address THEN "healthgrades" ELSE "google"]
    /\ UNCHANGED runVars

\* funtion.py:89-114  Step 2 and the choice of best_address.  google_info is never empty, so
\* the update and the append happen whatever the lookup found; the address of the registry's
\* first result (103-114) is empty whenever best_address of the registry is.
DetailsGoogle ==
    /\ fn.op = "details" /\ fn.pc = "google"
    /\ \E google_data \in GoogleReturns :
          fn' = [fn EXCEPT
                    !.google_data = <<google_data>>,
                    !.doctor_info.address = google_data.address,
                    !.doctor_info.phone_number = google_data.phone_number,
                    !.doctor_info.scraped_sources = Append(@, "Google Places"),
                    !.best_address = IF fn.address # <<>> THEN fn.address
                                     ELSE google_data.address,
                    !.pc = "healthgrades"]
    /\ UNCHANGED runVars

\* funtion.py:117-128  Step 3
DetailsHealthgrades ==
    /\ fn.op = "details" /\ fn.pc = "healthgrades"
    /\ \E hg \in HealthgradesReturnsOf[fn.specialty] :
          fn' = IF hg = <<>> THEN [fn EXCEPT !.pc = "webmd"]
                ELSE [fn EXCEPT
                         !.healthgrades_data = hg,
                         !.doctor_info.phone_number = IF @ = <<>> THEN hg[1].phone_number ELSE @,
                         !.doctor_info.address = IF @ = <<>> THEN hg[1].address ELSE @,
                         !.doctor_info.services_offered = @ \o hg[1].services_offered,
                         !.doctor_info.scraped_sources = Append(@, "Healthgrades"),
                         !.pc = "webmd"]
    /\ UNCHANGED runVars

\* funtion.py:131-146  Step 4
DetailsWebmd ==
    /\ fn.op = "details" /\ fn.pc = "webmd"
    /\ \E returned \in WebmdReturnsOf[fn.specialty] :
          IF returned = <<>> THEN fn' = [fn EXCEPT !.pc = "board"]
          ELSE \E networks \in
                    (IF returned[1].affiliated_insurance_networks # <<>>
                     THEN ListOfSet(fn.doctor_info.affiliated_insurance_networks
                                       \o returned[1].affiliated_insurance_networks)
                     ELSE {fn.doctor_info.affiliated_insurance_networks}) :
                  fn' = [fn EXCEPT
                            !.webmd_data = returned,
                            !.doctor_info.affiliated_insurance_networks = networks,
                            !.doctor_info.services_offered = @ \o returned[1].services_offered,
                            !.doctor_info.phone_number =
                                IF @ = <<>> THEN returned[1].phone_number ELSE @,
                            !.doctor_info.address = IF @ = <<>> THEN returned[1].address ELSE @,
                            !.doctor_info.scraped_sources = Append(@, "WebMD"),
                            !.pc = "board"]
    /\ UNCHANGED runVars

\* funtion.py:149-157  Step 5 and the return.  license_info is never empty and has no value.
DetailsBoard ==
    /\ fn.op = "details" /\ fn.pc = "board"
    /\ fn' = [fn EXCEPT !.doctor_info.scraped_sources = Append(@, "Medical Board"),
                        !.pc = "done"]
    /\ UNCHANGED runVars

NextDetails ==
    DetailsNpi \/ DetailsGoogle \/ DetailsHealthgrades \/ DetailsWebmd \/ DetailsBoard

SpecDetails == InitDetails /\ [][NextDetails]_vars /\ WF_vars(NextDetails)

(***************************************************************************)
(* Properties of get_doctor_details (specification SpecDetails)            *)
(***************************************************************************)
\* C24: every step of get_doctor_details is followed by the next one whatever its lookup
\* returned (the Google step only when the registry gave no address); a lookup that failed,
\* returning {} or its record as initialized, contributes nothing: the record, the list of
\* its sources included, is after the step what it was before; and the run always gets to
\* return its record.
C24_AlwaysReturnsRecord ==
    /\ [][fn.op = "details" =>
             LET a == fn.pc
                 b == fn'.pc
             IN  /\ a = "npi" =>
                       /\ b \in {"google", "healthgrades"}
                       /\ fn'.npi_data = <<>> =>
                             b = "google" /\ fn'.doctor_info = fn.doctor_info
                 /\ a = "google" =>
                       /\ b = "healthgrades"
                       /\ fn'.google_data = <<google_info>> =>
                             fn'.doctor_info = fn.doctor_info
                 /\ a = "healthgrades" =>
                       /\ b = "webmd"
                       /\ fn'.healthgrades_data = <<>> => fn'.doctor_info = fn.doctor_info
                 /\ a = "webmd" =>
                       /\ b = "board"
                       /\ fn'.webmd_data \in {<<>>, <<InitialRunData>>} =>
                             fn'.doctor_info = fn.doctor_info
                 /\ a = "board" => b = "done"
                 /\ a # "done"
         ]_vars
    /\ <>(fn.op = "details" /\ fn.pc = "done")

(***************************************************************************)
(* Timeouts of the network-bound waits (specification Spec)                *)
(***************************************************************************)
\* Page fetch p exists before and after the step and has moved to another position.
PageMoved(p) ==
    /\ p \in DOMAIN page_tasks
    /\ p \in DOMAIN page_tasks'
    /\ page_tasks'[p].pc # page_tasks[p].pc

\* C25 as stated: no navigation, quiescence or element-visibility wait of a page fetch, of a
\* probe or of the profile load ends its task; the task goes on with a next step.
C25_Original ==
    [][/\ \A i \in 1..Len(insurance_plans_to_check) :
             (ProbeMoved(i) /\ probe_tasks[i].pc \in {"goto", "networkidle", "input_primary",
                                                       "input_fallback", "apply",
                                                       "networkidle2"}) =>
                 probe_tasks'[i].pc \notin {"finally", "done"}
       /\ \A p \in 1..MaxPages :
             (PageMoved(p) /\ page_tasks[p].pc = "goto") =>
                 page_tasks'[p].pc \notin {"finally", "done"}
       /\ pc = "profile_goto" => pc' \in {"profile_goto", "profile_idle"}
      ]_vars

\* C25, amended: the timeout of a wait is never delivered to the caller, and what follows
\* depends on the wait.  After a quiescence wait the task goes on, through a fixed wait when
\* it timed out.  After a failed navigation the task ends with its empty result: [] for a
\* page fetch, False for a probe, {} for the profile.  The input that does not become visible
\* leads to the fallback locator, and that one to the returned False; the apply button that
\* does not become visible leads to the Enter key.
C25_TimeoutsNotEscalated ==
    [][/\ \A i \in 1..Len(insurance_plans_to_check) :
             ProbeMoved(i) =>
                LET a == probe_tasks[i].pc
                    t == probe_tasks'[i]
                IN  /\ a = "networkidle" => t.pc \in {"scroll_top", "fallback_wait"}
                    /\ a = "networkidle2" => t.pc \in {"count", "fallback_wait2"}
                    /\ a = "goto" =>
                          \/ t.pc = "networkidle"
                          \/ t.pc = "finally" /\ t.exit = "exception" /\ t.result = FALSE
                    /\ a = "input_primary" => t.pc \in {"click", "input_fallback"}
                    /\ a = "input_fallback" =>
                          \/ t.pc = "click"
                          \/ t.pc = "finally" /\ t.exit = "no_input" /\ t.result = FALSE
                    /\ a = "apply" => t.pc \in {"apply_click", "press_enter"}
                    /\ t.pc = "done" => t.ret \in {<<TRUE>>, <<FALSE>>}
       /\ \A p \in 1..MaxPages :
             PageMoved(p) =>
                /\ page_tasks[p].pc = "goto" =>
                      \/ page_tasks'[p].pc = "goto_wait"
                      \/ /\ page_tasks'[p].pc = "finally"
                         /\ page_tasks'[p].raised /\ page_tasks'[p].doctors = <<>>
                /\ page_tasks'[p].pc = "done" => Len(page_tasks'[p].ret) = 1
       /\ pc = "profile_goto" =>
             \/ pc' \in {"profile_goto", "profile_idle"}
             \/ pc' = "close_browser" /\ webmd_data'.affiliated_insurance_networks = <<>>
       /\ pc = "profile_idle" => pc' \in {"profile_idle", "profile_settle", "profile_fallback"}
      ]_vars

\* C25 witness: one probe is in the fixed wait after the timeout of its wait for the results
\* and another, which had opened its tab, has ended on an exception and returned False.
C25_Witness ==
    /\ pc = "gather_probes"
    /\ Len(probe_tasks) >= 2
    /\ probe_tasks[1].pc = "fallback_wait2"
    /\ probe_tasks[2].pc = "done" /\ probe_tasks[2].exit = "exception"
    /\ probe_tasks[2].new_page # <<>> /\ probe_tasks[2].ret = <<FALSE>>

(***************************************************************************)
(* The merge of the verification results (specification Spec)              *)
(***************************************************************************)
\* The elements of the list xs.
Elements(xs) == {xs[k] : k \in DOMAIN xs}

\* C26: in the step that merges the results of the probes, a checklist label becomes a
\* verified label exactly when its probe ended accepted; the values of the profile after
\* the step are the values it had from the passive extraction and the verified labels, so a
\* label whose probe ended otherwise is among them only if the passive extraction found it,
\* and no passively extracted value is lost.
C26_AddedIffAccepted ==
    [][(pc = "gather_probes" /\ pc' = "overview_return") =>
          LET passive == Elements(doctor_info[1].insurance_accepted)
              merged == Elements(doctor_info'[1].insurance_accepted)
          IN  /\ \A i \in 1..Len(insurance_plans_to_check) :
                    /\ insurance_plans_to_check[i] \in Elements(verified_insurance')
                          <=> probe_tasks[i].exit = "accepted"
                    /\ insurance_plans_to_check[i] \in merged
                          <=> \/ probe_tasks[i].exit = "accepted"
                              \/ insurance_plans_to_check[i] \in passive
              /\ passive \subseteq merged
              /\ merged \subseteq passive \cup Elements(insurance_plans_to_check)
      ]_vars

\* C26 witness: after the merge the profile has its two passively extracted values and the
\* one label whose probe ended accepted; the label whose probe ended rejected is there from
\* the passive extraction only.
C26_Witness ==
    /\ pc = "overview_return"
    /\ Len(probe_tasks) >= 2
    /\ probe_tasks[1].exit = "rejected" /\ probe_tasks[1].insurance_name = Aetna
    /\ probe_tasks[2].exit = "accepted"
    /\ \A i \in 3..Len(probe_tasks) : probe_tasks[i].exit = "exception"
    /\ verified_insurance = <<BlueCrossBlueShield>>
    /\ doctor_info[1].insurance_accepted = <<Medicaid, Aetna, BlueCrossBlueShield>>

\* C27: the accepted values of the record get_doctor_details returns have no repetition and
\* are in first-seen order: the values of the profile record, in the order of that record.
C27_FinalRecordKeepsOrder ==
    (fn.op = "details" /\ fn.pc = "done" /\ fn.webmd_data # <<>>) =>
        LET networks == fn.doctor_info.affiliated_insurance_networks
        IN  /\ \A i, j \in 1..Len(networks) : i # j => networks[i] # networks[j]
            /\ networks = DedupKeepOrder(fn.webmd_data[1].affiliated_insurance_networks, <<>>)

(***************************************************************************)
(* Selector chains: texts, safe, multi_safe and multi_texts,               *)
(* funtion.py:819-840 and webmd_insurance.py:310-331 (the same code).      *)
(* A document gives, for every selector, the texts of the elements it      *)
(* selects, in document order.                                             *)
(***************************************************************************)
MaxElements == 2

\* [e.get_text(strip=True) for e in soup.select(selector)]
texts(doc, selector) == [k \in 1..Len(doc[selector]) |-> Strip(doc[selector][k])]

\* soup.select_one(selector): el.get_text(strip=True) if el else None
safe(doc, selector) ==
    IF doc[selector] = <<>> THEN <<>> ELSE << Strip(doc[selector][1]) >>

\* multi_safe from selector i of the chain on: the first result that is neither None nor the
\* empty string, None when there is none; with the number of selectors it has tried.
RECURSIVE MultiSafeFrom(_, _, _)
MultiSafeFrom(doc, selectors, i) ==
    IF i > Len(selectors) THEN [value |-> <<>>, tried |-> i - 1]
    ELSE LET result == safe(doc, selectors[i])
         IN  IF result # <<>> /\ result[1] # <<>> THEN [value |-> result, tried |-> i]
             ELSE MultiSafeFrom(doc, selectors, i + 1)
multi_safe(doc, selectors) == MultiSafeFrom(doc, selectors, 1)

\* multi_texts from selector i of the chain on: the first list that is not empty, [] when
\* there is none; with the number of selectors it has tried.
RECURSIVE MultiTextsFrom(_, _, _)
MultiTextsFrom(doc, selectors, i) ==
    IF i > Len(selectors) THEN [value |-> <<>>, tried |-> i - 1]
    ELSE LET result == texts(doc, selectors[i])
         IN  IF result # <<>> THEN [value |-> result, tried |-> i]
             ELSE MultiTextsFrom(doc, selectors, i + 1)
multi_texts(doc, selectors) == MultiTextsFrom(doc, selectors, 1)

\* funtion.py:841-847: the chain of the name, its first selectors
NameSelectors == <<"h1", ".provider-name">>

\* The text of an element, before it is stripped.
ElementTexts == {<<>>, <<" ">>, <<"A">>, <<" ", "B">>}

InitExtract ==
    /\ IdleRun
    /\ \E doc \in [{NameSelectors[k] : k \in 1..Len(NameSelectors)} ->
                        SeqsUpTo(ElementTexts, MaxElements)] :
          fn = [op |-> "extract", doc |-> doc, selectors |-> NameSelectors, done |-> FALSE,
                single |-> [value |-> <<>>, tried |-> 0],
                list |-> [value |-> <<>>, tried |-> 0]]

ApplyExtract ==
    /\ fn.op = "extract"
    /\ ~fn.done
    /\ fn' = [fn EXCEPT !.done = TRUE,
                        !.single = multi_safe(fn.doc, fn.selectors),
                        !.list = multi_texts(fn.doc, fn.selectors)]
    /\ UNCHANGED runVars

NextExtract == ApplyExtract

SpecExtract == InitExtract /\ [][NextExtract]_vars

\* The selectors of the chain that select an element of the document.
Matching(doc, selectors) == {k \in 1..Len(selectors) : doc[selectors[k]] # <<>>}

\* C28: when a selector of the chain selects an element, the first such selector is the last
\* one tried; the single value is the text of the first element it selects and the list is
\* the texts of all the elements it selects.  When none does, the single value is None and
\* the list is empty.
C28_FirstMatchingSelector ==
    (fn.op = "extract" /\ fn.done) =>
        LET m == Matching(fn.doc, fn.selectors)
        IN  IF m = {}
            THEN fn.single.value = <<>> /\ fn.list.value = <<>>
            ELSE LET k == CHOOSE k \in m : \A j \in m : k <= j
                     found == fn.doc[fn.selectors[k]]
                 IN  /\ fn.single.tried = k
                     /\ fn.single.value = << Strip(found[1]) >>
                     /\ fn.list.tried = k
                     /\ fn.list.value = [e \in 1..Len(found) |-> Strip(found[e])]

(***************************************************************************)
(* The summary of a crawl (specification Spec)                             *)
(***************************************************************************)
\* C29 as stated: what the coordinator returns holds, with the entries of the merged
\* sequence, one more component, the count of the pages that succeeded.
C29_Original ==
    (pc = "crawl_return" /\ crawl # <<>>) =>
        Len(doctors) = Len(crawl[1].unique_doctors) + 1

\* C29, amended: the coordinator returns the merged sequence and nothing else; the count it
\* computes for its log is the number of pages whose fetch returned at least one entry, so
\* a page whose fetch raised, or found no provider, is not counted.
C29_CountOfPagesWithEntries ==
    (pc = "crawl_return" /\ crawl # <<>>) =>
        /\ doctors = crawl[1].unique_doctors
        /\ crawl[1].successful_pages =
              Cardinality({p \in 1..Len(page_tasks) : page_tasks[p].ret[1] # <<>>})
        /\ crawl[1].successful_pages <=
              Cardinality({p \in 1..Len(page_tasks) : ~page_tasks[p].raised})
        /\ crawl[1].successful_pages <= MaxPages

\* C29 witness: a crawl whose first page raised and whose other pages returned entries has
\* counted all pages but the first.
C29_Witness ==
    /\ pc = "crawl_return" /\ crawl # <<>>
    /\ page_tasks[1].raised
    /\ \A p \in 2..Len(page_tasks) : ~page_tasks[p].raised /\ page_tasks[p].ret[1] # <<>>
    /\ crawl[1].successful_pages = MaxPages - 1
    /\ doctors # <<>>

(***************************************************************************)
(* Concurrency of the probes (specification Spec)                          *)
(***************************************************************************)
\* C30: while the probes of a profile are gathered, every probe that has not finished can
\* take its next step, wherever the other probes are: none waits for another one to start
\* or to finish.
C30_NoProbeWaitsForAnother ==
    pc = "gather_probes" =>
        \A i \in 1..Len(probe_tasks) :
            probe_tasks[i].pc # "done" => ENABLED ProbeStep(i)

\* C30 witness: the last probe reads the content of its result page while the first has not
\* opened its tab.
C30_Witness ==
    /\ pc = "gather_probes"
    /\ Len(probe_tasks) >= 2
    /\ probe_tasks[1].pc = "new_page"
    /\ probe_tasks[Len(probe_tasks)].pc = "content"

\* C31: a page that yields no entries or fails does not end the crawl.  A task is created
\* for every page number 1..MaxPages; while the coordinator waits, a page task that has not
\* finished can take its next step whatever the other pages returned; and once the crawl
\* has merged, every page has been fetched to its end and the entries of every page that
\* comes after an empty or failed page are in the merged output.
C31_EmptyPageDoesNotEndCrawl ==
    /\ pc = "gather_pages" =>
          /\ Len(page_tasks) = MaxPages
          /\ \A q \in 1..MaxPages : page_tasks[q].pc # "done" => ENABLED PageStep(q)
    /\ (pc = "crawl_return" /\ crawl # <<>>) =>
          /\ Len(page_tasks) = MaxPages
          /\ \A q \in 1..MaxPages : page_tasks[q].pc = "done" /\ page_tasks[q].ret # <<>>
          /\ \A p, q \in 1..MaxPages :
                (p < q /\ page_tasks[p].ret[1] = <<>>) =>
                    \A k \in 1..Len(page_tasks[q].ret[1]) :
                        \E j \in 1..Len(doctors) :
                            doctors[j].url = page_tasks[q].ret[1][k].url

\* C31 witness: the first page was fetched without an error and had no entries, the last
\* page had one, and the crawl returned it.
C31_Witness ==
    /\ pc = "crawl_return"
    /\ page_tasks[1].ret = << <<>> >> /\ ~page_tasks[1].raised
    /\ page_tasks[1].new_page # <<>>
    /\ Len(page_tasks[MaxPages].ret[1]) = 1
    /\ doctors = page_tasks[MaxPages].ret[1]

\* The positions of the raw entries (in page-number order) that carry the URI u.
OccurrencesOf(all, u) == {k \in 1..Len(all) : all[k].url = u}

\* The least and the greatest element of a non-empty set of positions.
MinOf(S) == CHOOSE k \in S : \A j \in S : k <= j
MaxOf(S) == CHOOSE k \in S : \A j \in S : j <= k

\* C32: for every URI of the raw entries the merged output has exactly one entry; it is the
\* entry of the URI's last occurrence in page-number order (so it carries that occurrence's
\* display name), and its position is the rank of the URI's first occurrence among the
\* first occurrences of all the URIs.
C32_LastNameAtFirstPosition ==
    crawl # <<>> =>
        LET all == crawl[1].all_doctors
            merged == crawl[1].unique_doctors
        IN  \A k \in 1..Len(all) :
                LET occ == OccurrencesOf(all, all[k].url)
                    at == {j \in 1..Len(merged) : merged[j].url = all[k].url}
                IN  /\ Cardinality(at) = 1
                    /\ \A j \in at :
                          /\ merged[j].name = all[MaxOf(occ)].name
                          /\ j = Cardinality({all[i].url : i \in 1..MinOf(occ)})

\* C32 witness: the same URI came from page 1 and, under another display name, from the last
\* page after an entry with another URI; the merged output has the later name at position 1.
C32_Witness ==
    /\ crawl # <<>>
    /\ Len(crawl[1].page_results[1]) = 2
    /\ Len(crawl[1].page_results[MaxPages]) = 1
    /\ crawl[1].page_results[1][1].url = crawl[1].page_results[MaxPages][1].url
    /\ crawl[1].page_results[1][1].name # crawl[1].page_results[MaxPages][1].name
    /\ crawl[1].page_results[1][2].url # crawl[1].page_results[1][1].url
    /\ Len(crawl[1].unique_doctors) = 2
    /\ crawl[1].unique_doctors[1].name = crawl[1].page_results[MaxPages][1].name

\* What the coordinators and the other tasks can see: everything but the task records and
\* the tabs.
Shared ==
    <<pc, name, state, states_to_search, state_idx, browser, crawl, doctors, doctor_found,
      doctor_info, verified_insurance, webmd_data>>

\* The tabs other than t are left as they are.
OtherTabsUnchanged(t) ==
    \A x \in DOMAIN tabs : x # t => x \in DOMAIN tabs' /\ tabs'[x] = tabs[x]

\* C33: a step of a page fetch or of a probe writes nothing but its own task record and its
\* own tab, so nothing is shared between the tasks before the barrier; the crawl coordinator
\* returns the deduplication of the page results taken in page-number order, and the
\* verification coordinator the labels of the probes that returned true in checklist order,
\* both determined by the per-task results alone, whatever the order in which the tasks
\* finished.
C33_OutputsIndependentOfCompletionOrder ==
    [][ /\ \A p \in 1..MaxPages :
              PageStep(p) =>
                  /\ UNCHANGED Shared /\ UNCHANGED probe_tasks
                  /\ \A q \in DOMAIN page_tasks : q # p => page_tasks'[q] = page_tasks[q]
                  /\ OtherTabsUnchanged(PageTask(p))
        /\ \A i \in 1..Len(insurance_plans_to_check) :
              ProbeStep(i) =>
                  /\ UNCHANGED Shared /\ UNCHANGED page_tasks
                  /\ \A j \in DOMAIN probe_tasks : j # i => probe_tasks'[j] = probe_tasks[j]
                  /\ OtherTabsUnchanged(ProbeTask(i))
        /\ CrawlMerge =>
              doctors' = DedupByUrl(
                  CollectDoctors([p \in 1..MaxPages |-> page_tasks[p].ret[1]], 1), <<>>)
        /\ VerifyMerge =>
              verified_insurance' = VerifiedLabels(insurance_plans_to_check,
                  [i \in 1..Len(insurance_plans_to_check) |-> probe_tasks[i].ret[1]], 1)
      ]_vars

\* C33 witness: the tasks finish out of order: after a crawl that found the provider, the
\* last probe has finished with a true result while the first probe has not opened its tab.
C33_Witness ==
    /\ pc = "gather_probes"
    /\ doctor_found # <<>>
    /\ Len(probe_tasks) >= 2
    /\ probe_tasks[Len(probe_tasks)].pc = "done"
    /\ probe_tasks[Len(probe_tasks)].ret = <<TRUE>>
    /\ probe_tasks[1].pc = "new_page"

\* The greater of two numbers.
Max2(a, b) == IF a >= b THEN a ELSE b

\* C34: at every point of a run at most 1 + max(N, M) tabs are open, N the number of pages
\* of a crawl and M the number of checklist items: the main page and one tab for each page
\* fetch or probe in flight; and when the crawl coordinator or the verification coordinator
\* returns, the main page is the only open tab.
C34_OpenTabsBounded ==
    /\ Cardinality(OpenTabs) <= 1 + Max2(MaxPages, Len(insurance_plans_to_check))
    /\ \A t \in OpenTabs :
          \/ t = MAIN
          \/ t[1] = "page" /\ pc = "gather_pages" /\ t[2] \in DOMAIN page_tasks
                /\ page_tasks[t[2]].pc # "done"
          \/ t[1] = "probe" /\ pc = "gather_probes" /\ t[2] \in DOMAIN probe_tasks
                /\ probe_tasks[t[2]].pc # "done"
    /\ pc \in {"crawl_return", "overview_return"} => OpenTabs = {MAIN}

\* C34 witness: the verification coordinator has returned after every probe had its tab open
\* and closed it; the main page alone is open.
C34_Witness ==
    /\ pc = "overview_return"
    /\ OpenTabs = {MAIN}
    /\ \A i \in DOMAIN probe_tasks :
          /\ probe_tasks[i].new_page # <<>>
          /\ tabs[ProbeTask(i)].closes = 1
    /\ Len(probe_tasks) = Len(insurance_plans_to_check)

(***************************************************************************)
(* The run under the assumption that every browser operation eventually    *)
(* returns or raises: the event loop resumes a coroutine whose awaited     *)
(* operation has ended, so a step that can be taken is eventually taken.   *)
(***************************************************************************)
SpecLive == Init /\ [][Next]_vars /\ WF_vars(Next)

\* C35: under that assumption the run eventually returns its record.  On the way a gather
\* barrier is left only by the coordinator's merge, once every page fetch (every probe) has
\* reached its terminal state with its tab closed, so every task reaches that state and both
\* barriers are passed.  The lazy-loading loop of a page fetch makes at most ScrollRounds
\* rounds and the section scroll of a probe at most SectionScrollSteps steps, one more at
\* each iteration, and the section scroll is left at the step where the heading is visible.
C35_Terminates ==
    /\ [][ /\ \A p \in DOMAIN page_tasks :
                 (p \in DOMAIN page_tasks' /\ page_tasks'[p] # page_tasks[p]) =>
                     /\ (page_tasks[p].pc = "scroll" /\ ~page_tasks'[p].raised) =>
                           /\ page_tasks'[p].pc = "scroll_wait"
                           /\ page_tasks'[p].scroll_round = page_tasks[p].scroll_round
                     /\ (page_tasks[p].pc = "scroll_wait" /\ ~page_tasks'[p].raised) =>
                           /\ page_tasks'[p].scroll_round = page_tasks[p].scroll_round + 1
                           /\ page_tasks'[p].pc = "scroll" =>
                                 page_tasks'[p].scroll_round < ScrollRounds
                           /\ page_tasks'[p].pc # "scroll" =>
                                 /\ page_tasks'[p].pc = "content"
                                 /\ page_tasks'[p].scroll_round = ScrollRounds
           /\ \A i \in DOMAIN probe_tasks :
                 (i \in DOMAIN probe_tasks' /\ probe_tasks'[i] # probe_tasks[i]) =>
                     /\ (probe_tasks[i].pc = "scroll" /\ probe_tasks'[i].exit = "") =>
                           /\ probe_tasks'[i].pc = "scroll_wait"
                           /\ probe_tasks'[i].scroll_step = probe_tasks[i].scroll_step
                     /\ (probe_tasks[i].pc = "scroll_wait" /\ probe_tasks'[i].exit = "") =>
                           /\ probe_tasks'[i].pc = "scroll_visible"
                           /\ probe_tasks'[i].scroll_step = probe_tasks[i].scroll_step
                     /\ probe_tasks[i].pc = "scroll_visible" =>
                           /\ probe_tasks'[i].pc \in {"scroll", "input_primary"}
                           /\ probe_tasks'[i].pc = "scroll" =>
                                 /\ probe_tasks'[i].scroll_step = probe_tasks[i].scroll_step + 1
                                 /\ probe_tasks'[i].scroll_step <= SectionScrollSteps
                           /\ probe_tasks'[i].insurance_section_found =>
                                 probe_tasks'[i].pc = "input_primary"
           /\ (pc = "gather_pages" /\ pc' # pc) =>
                 /\ pc' = "crawl_return"
                 /\ \A p \in 1..MaxPages :
                       page_tasks'[p].pc = "done" /\ PageTask(p) \notin OpenTabs'
           /\ (pc = "gather_probes" /\ pc' # pc) =>
                 /\ pc' = "overview_return"
                 /\ \A i \in 1..Len(insurance_plans_to_check) :
                       probe_tasks'[i].pc = "done" /\ ProbeTask(i) \notin OpenTabs'
         ]_vars
    /\ <>(pc = "done")

\* C35 witness: the run has returned its record after a crawl that found the provider and a
\* verification that confirmed an item.
C35_Witness ==
    /\ pc = "done"
    /\ webmd_data.webmd_profile_url # <<>>
    /\ doctor_found # <<>>
    /\ verified_insurance # <<>>
    /\ browser = "closed"

\* C36: when _scrape_webmd_with_playwright has returned, a browser it launched has been
\* closed by browser.close(), on every path: no match, a verified profile, and an exception
\* in the crawl, in the passive profile extraction or in the verification.
C36_BrowserClosedOnEveryPath ==
    pc = "done" => browser \in {"none", "closed"}

(***************************************************************************)
(* The run for a target name that normalizes to the empty string, with the *)
(* state given (one directory crawl).                                      *)
(***************************************************************************)
InitEmptyTarget == InitRun(EmptyTargets) /\ state # <<>>

SpecEmptyTarget == InitEmptyTarget /\ [][Next]_vars

\* C37: for a target name that normalizes to the empty string, the matcher applied to a
\* non-empty crawl result returns its first candidate, the run goes on to that candidate's
\* profile, and the profile loaded and every probe created are for that candidate's URL.
C37_EmptyTargetTakesFirstCandidate ==
    [][ /\ pc = "start" => (_normalize_name(name) = <<>> /\ name' = name)
        /\ (pc = "crawl_return" /\ doctors # <<>>) =>
              /\ doctor_found' = <<doctors[1]>>
              /\ pc' = "profile_goto"
        /\ (pc = "profile_content" /\ pc' = "gather_probes") =>
              /\ Len(probe_tasks') = Len(insurance_plans_to_check)
              /\ \A i \in DOMAIN probe_tasks' : probe_tasks'[i].url = doctor_found[1].url
        /\ (pc = "overview_return" /\ pc' # pc) =>
              webmd_data'.webmd_profile_url = <<doctor_found[1].url>>
      ]_vars

\* C37 witness: the target is 'Dr.', the first candidate of the crawl result was Sara
\* Williams, and the verification of her profile has confirmed an item.
C37_Witness ==
    /\ name = DrOnly
    /\ pc = "overview_return"
    /\ doctor_found # <<>>
    /\ doctor_found[1].name = SaraWilliams
    /\ verified_insurance # <<>>

\* The run is in the loop over the states: at its head, crawling, or at the matcher.
InStateLoop == pc \in {"loop", "gather_pages", "crawl_return"}

\* C38: with a state given the list to search is that state alone and one directory crawl
\* is performed; with no state given it is idaho, california, texas, florida, new-york.  The
\* states are crawled in list order, each at most once: a crawl starts for the current
\* index only, the index moves on by one exactly when the crawl result has no match, and
\* the loop ends after the last state.  After the first crawl result with a match no further
\* crawl starts, and the profile of that match is the only one the run fetches and verifies.
C38_StateLoop ==
    [][ /\ InStateLoop =>
              /\ states_to_search =
                    IF state # <<>> THEN <<state[1]>>
                    ELSE <<"idaho", "california", "texas", "florida", "new-york">>
              /\ states_to_search' = states_to_search
        /\ (pc' = "loop" /\ ~InStateLoop) => state_idx' = 1
        /\ (pc' = "gather_pages" /\ pc # "gather_pages") =>
              /\ pc = "loop"
              /\ doctor_found = <<>>
              /\ state_idx \in 1..Len(states_to_search)
              /\ state_idx' = state_idx
        /\ pc = "crawl_return" =>
              \/ doctor_found' # <<>> /\ pc' = "profile_goto" /\ state_idx' = state_idx
              \/ doctor_found' = <<>> /\ pc' = "loop" /\ state_idx' = state_idx + 1
        /\ (InStateLoop /\ pc # "crawl_return") => state_idx' = state_idx
        /\ (pc = "loop" /\ state_idx > Len(states_to_search)) => pc' = "close_browser"
        /\ (state # <<>> /\ pc = "loop" /\ state_idx > 1) => pc' = "close_browser"
        /\ (pc' = "profile_goto" /\ pc # "profile_goto") => pc = "crawl_return"
        /\ (ProfilePhase \/ pc \in {"close_browser", "stop_playwright", "done"}) =>
              ~InStateLoop'
      ]_vars

\* C38 witness: no state was given, the crawls of idaho and california had no match, the
\* crawl of texas had one, and the run is about to fetch its profile.
C38_Witness ==
    /\ state = <<>>
    /\ state_idx = 3
    /\ states_to_search[state_idx] = "texas"
    /\ pc = "profile_goto"
    /\ doctor_found # <<>>

(***************************************************************************)
(* Specification of the two crawls on one listing: the initial states are  *)
(* the run at the head of the state loop and draw the listing page every   *)
(* page number shows, each with a provider anchor.  The steps are those of *)
(* the concurrent crawl _scrape_doctors_from_webmd (funtion.py:667-786):   *)
(* the page tasks, one step per await, and the barrier with the merge; and *)
(* the reference crawl scrape_doctors (webmd_insurance.py:30-72), a        *)
(* sequential script with no suspension point, on the same listing.        *)
(***************************************************************************)
\* webmd_insurance.py:33-69: the pages in order, up to the first page without providers
RECURSIVE ScrapeRefFrom(_, _)
ScrapeRefFrom(pages, page_num) ==
    IF page_num > Len(pages) \/ pages[page_num] = <<>> THEN <<>>
    ELSE ExtractEntriesRef(pages[page_num]) \o ScrapeRefFrom(pages, page_num + 1)

\* webmd_insurance.scrape_doctors
scrape_doctors(pages) == DedupByUrl(ScrapeRefFrom(pages, 1), <<>>)

InitRefine ==
    /\ AtStateLoop(DrSaraJohnson)
    /\ \E pages \in [1..MaxPages -> RefinePages] :
          fn = [op |-> "refine", pages |-> pages, reference |-> <<>>]

\* webmd_insurance.py:30-72  the reference crawl of the same pages
RefineReference ==
    /\ fn.op = "refine"
    /\ fn.reference = <<>>
    /\ fn' = [fn EXCEPT !.reference = <<scrape_doctors(fn.pages)>>]
    /\ UNCHANGED runVars

NextRefine ==
    \/ StartCrawl
    \/ \E p \in 1..MaxPages : PageStep(p)
    \/ CrawlMerge
    \/ RefineReference

SpecRefine == InitRefine /\ [][NextRefine]_vars

\* The profile path of a URL: the URL without the directory's host.
PathOf(url) == IF StartsWithAt(url, 1, HOST) THEN Drop(url, Len(HOST) + 1) ELSE url

\* The sequence of (display name, profile path) of a crawl result.
NamesAndPaths(ds) == [j \in 1..Len(ds) |-> [name |-> ds[j].name, path |-> PathOf(ds[j].url)]]

\* Both crawls have returned and no page fetch of the concurrent crawl failed.
BothCrawlsReturned ==
    /\ fn.op = "refine"
    /\ pc = "crawl_return"
    /\ \A p \in 1..MaxPages : ~page_tasks[p].raised
    /\ fn.reference # <<>>

\* C39: for all page contents without a failed or empty page the concurrent crawl returns,
\* under every interleaving of its page tasks, the same sequence of (display name,
\* query-stripped profile path) entries, in the same order, as the reference crawl.
C39_ConcurrentRefinesReference ==
    BothCrawlsReturned => NamesAndPaths(doctors) = NamesAndPaths(fn.reference[1])

\* The two crawls agree when every link of every page is relative.
RelativeLinksAgree ==
    (BothCrawlsReturned /\ \A p \in 1..MaxPages : fn.pages[p] # <<AnchorJohnsonAbsolute>>) =>
        NamesAndPaths(doctors) = NamesAndPaths(fn.reference[1])

====
